---- MODULE Spec2Model ----
(***************************************************************************)
(* The hybrid data layer of calendar-mood: the Local Store (MoodCalendarDB *)
(* over a Dexie/IndexedDB table), the Remote Snapshot Store                *)
(* (EdgeConfigStore) and the Reconciliation Service                        *)
(* (HybridMoodDataService), as a state machine.                            *)
(*                                                                         *)
(* Every asynchronous call is a task.  One action is one resumption of a   *)
(* task: the completion of the I/O it awaits together with the synchronous *)
(* code that runs up to the next await.  Dates are the integer YYYYMMDD of *)
(* the ISO string, comments are sequences of one-character strings, and    *)
(* averages are held in hundredths.  Time is counted in minutes.           *)
(***************************************************************************)
EXTENDS Integers, Sequences, FiniteSets, TLC

----------------------------------------------------------------------------
(* Bounds of the model *)

\* ids the key generator of the table may hand out
MaxId == 3
\* how many times the clock advances
MaxTicks == 2
\* setTimeout callbacks of syncInBackground that may be pending at once
MaxTimers == 1

\* the in-flight asynchronous calls
Tasks == {1, 2}

----------------------------------------------------------------------------
(* Data model *)

\* id?: number -- the value of an entry that carries no id
NoId == 0

SYNC_INTERVAL == 5
CACHE_EXPIRY == 10
MAX_RETRIES == 3
\* minutes by which one tick advances Date.now()
TickStep == 5
\* mutations of the hook useHybridConfig in one behaviour
MaxCalls == 3
\* Date.now() when the page is loaded: far from the epoch, so that a timestamp
\* of 0 is always older than both windows
StartTime == CACHE_EXPIRY + SYNC_INTERVAL

Dates == {20250901, 20250902}

PayloadA == [dose |-> 100, clonazepamDrops |-> 2, mood |-> 4, comment |-> <<"D", "i", "a">>]
PayloadB == [dose |-> 50, clonazepamDrops |-> 1, mood |-> 3, comment |-> <<"d", "o">>]

Payloads == {PayloadA, PayloadB}

MkEntry(d, p) ==
  [date |-> d, dose |-> p.dose, clonazepamDrops |-> p.clonazepamDrops,
   mood |-> p.mood, comment |-> p.comment]

\* the object a stored or remote entry is: the fields and the id
WithId(i, e) ==
  [id |-> i, date |-> e.date, dose |-> e.dose, clonazepamDrops |-> e.clonazepamDrops,
   mood |-> e.mood, comment |-> e.comment]

\* { ...entry, id: undefined } as the table stores it
StripId(e) ==
  [date |-> e.date, dose |-> e.dose, clonazepamDrops |-> e.clonazepamDrops,
   mood |-> e.mood, comment |-> e.comment]

\* what the entry modal hands to saveEntry
InputEntries == {MkEntry(d, p) : d \in Dates, p \in Payloads}

\* Partial<Omit<MoodEntry, 'id' | 'createdAt'>>: the fields an update carries
Updates == {[date |-> 20250902]}

RemoteA == WithId(1, MkEntry(20250901, PayloadA))
RemoteB == WithId(1, MkEntry(20250902, PayloadB))
RemoteC == WithId(NoId, MkEntry(20250902, PayloadA))

\* values the Edge Config key mood_entries may hold
RemoteLists == {<<>>, <<RemoteA>>, <<RemoteA, RemoteB>>, <<RemoteB, RemoteC, RemoteA>>}

\* parsed backup files: a list with equal ids, one with a missing id and a
\* repeated date, one that lacks the dose key, and one that is not a list
BackupFiles ==
  { [isArray |-> TRUE, data |-> <<RemoteA, RemoteB>>],
    [isArray |-> TRUE, data |-> <<RemoteC, WithId(2, MkEntry(20250902, PayloadB))>>],
    [isArray |-> TRUE, data |-> <<RemoteA, [date |-> 20250902, mood |-> 4]>>],
    [isArray |-> TRUE, data |-> <<RemoteA, [date |-> 20250902, dose |-> 50]>>],
    [isArray |-> TRUE, data |-> <<[dose |-> 50, mood |-> 3], RemoteA>>],
    [isArray |-> FALSE, data |-> <<>>] }

\* remote entries outside the enumerations of MoodEntry: a mood of 9, a dose
\* of 75
RawBadMood == [RemoteB EXCEPT !.mood = 9]
RawBadDose == [RemoteA EXCEPT !.dose = 75]

\* values the Edge Config key may hold when the operator publishes unchecked
\* data
RawLists == {<<RemoteA, RawBadMood>>, <<RawBadDose>>}

\* a parsed backup file of which an element is outside the enumerations
RawFiles == {[isArray |-> TRUE, data |-> <<RawBadDose, RawBadMood>>]}

\* remote elements of another shape: a mood of 0, and objects without the
\* comment, without clonazepamDrops, without the date
RawZeroMood == [RemoteA EXCEPT !.mood = 0]
RawNoComment == [id |-> 2, date |-> 20250902, dose |-> 50, clonazepamDrops |-> 1, mood |-> 3]
RawNoDrops == [id |-> 3, date |-> 20250901, dose |-> 0, mood |-> 5, comment |-> <<>>]
RawNoDate == [id |-> 4, dose |-> 150, clonazepamDrops |-> 0, mood |-> 1, comment |-> <<"d">>]

\* values of the key with elements of either kind between valid ones
ShapeLists ==
  { <<RawBadMood, RemoteA, RawNoComment, RemoteB>>,
    <<RemoteB, RawBadDose, RemoteA>>,
    <<RawNoDrops, RawZeroMood>>,
    <<RemoteA, RawNoDate>> }

SearchTerms == {<<"i", "A">>}

Months == {<<2025, 9>>}

Ranges == {<<20250902, 20250930>>}

----------------------------------------------------------------------------
(* Pure helpers *)

Lower(c) ==
  CASE c = "D" -> "d"
    [] c = "I" -> "i"
    [] c = "A" -> "a"
    [] OTHER -> c

toLowerCase(s) == [k \in 1..Len(s) |-> Lower(s[k])]

\* String.prototype.includes
includes(s, t) ==
  \E k \in 0..(Len(s) - Len(t)) : SubSeq(s, k + 1, k + Len(t)) = t

\* a rounding that cuts the digits after the second decimal off
Round2_truncated(total, n) == (100 * total) \div n

\* Math.round((total / n) * 100) / 100, in hundredths
Round2(total, n) == (200 * total + n) \div (2 * n)

RECURSIVE SumSeq(_)
SumSeq(s) == IF s = <<>> THEN 0 ELSE Head(s) + SumSeq(Tail(s))

MapMood(s) == [k \in 1..Len(s) |-> s[k].mood]
MapDose(s) == [k \in 1..Len(s) |-> s[k].dose]
MapDrops(s) == [k \in 1..Len(s) |-> s[k].clonazepamDrops]

\* a month that ends on day 30
MonthEnd_thirty(year, month) == year * 10000 + month * 100 + 30

\* `${year}-${String(month).padStart(2, '0')}-01` and `...-31`
MonthStart(year, month) == year * 10000 + month * 100 + 1
MonthEnd(year, month) == year * 10000 + month * 100 + 31
\* `${year}-${monthStr}`, the prefix of a date
YearMonth(year, month) == year * 100 + month
startsWith(date, yearMonth) == date \div 100 = yearMonth

----------------------------------------------------------------------------
(* The table moodEntries: a function from primary key to the stored object *)

EmptyTable == [i \in {} |-> MkEntry(0, PayloadA)]

Row(r, i) == WithId(i, r[i])

RECURSIVE PkOrder(_)
\* the primary keys in ascending order
PkOrder(S) ==
  IF S = {} THEN <<>>
  ELSE LET m == CHOOSE i \in S : \A j \in S : i <= j
       IN <<m>> \o PkOrder(S \ {m})

RECURSIVE DateOrder(_, _)
\* the keys in the order of the index on date (ties by primary key)
DateOrder(r, S) ==
  IF S = {} THEN <<>>
  ELSE LET m == CHOOSE i \in S : \A j \in S :
                   \/ r[i].date < r[j].date
                   \/ (r[i].date = r[j].date /\ i <= j)
       IN <<m>> \o DateOrder(r, S \ {m})

RowsOf(r, keys) == [k \in 1..Len(keys) |-> Row(r, keys[k])]

\* db.moodEntries.toArray()
toArray(r) == RowsOf(r, PkOrder(DOMAIN r))

\* db.moodEntries.where('date').between(lo, hi, true, true).toArray()
between(r, lo, hi) ==
  RowsOf(r, DateOrder(r, {i \in DOMAIN r : lo <= r[i].date /\ r[i].date <= hi}))

DB_getAllEntries(r) == RowsOf(r, DateOrder(r, DOMAIN r))

\* an export that leaves out the last row
DB_exportData_short(r) ==
  IF r = EmptyTable THEN <<>> ELSE SubSeq(toArray(r), 1, Len(toArray(r)) - 1)

\* exportData(): db.moodEntries.toArray()
DB_exportData(r) == toArray(r)

\* a lookup that never finds the date
DB_getEntryByDate_none(r, date) == <<>>

\* where('date').equals(date).first(): a list of none or one
DB_getEntryByDate(r, date) ==
  LET hit == between(r, date, date)
  IN IF hit = <<>> THEN <<>> ELSE <<Head(hit)>>

DB_getEntriesForMonth(r, year, month) ==
  between(r, MonthStart(year, month), MonthEnd(year, month))

DB_getEntriesInRange(r, startDate, endDate) == between(r, startDate, endDate)

DB_searchEntries(r, searchTerm) ==
  SelectSeq(toArray(r),
            LAMBDA e : includes(toLowerCase(e.comment), toLowerCase(searchTerm)))

StatsOf(entries) ==
  IF Len(entries) = 0
  THEN [totalEntries |-> 0, averageMood |-> 0, averageDose |-> 0,
        averageClonazepamDrops |-> 0]
  ELSE [totalEntries |-> Len(entries),
        averageMood |-> Round2(SumSeq(MapMood(entries)), Len(entries)),
        averageDose |-> Round2(SumSeq(MapDose(entries)), Len(entries)),
        averageClonazepamDrops |-> Round2(SumSeq(MapDrops(entries)), Len(entries))]

DB_getStats(r) == StatsOf(toArray(r))

Tagged(stats, tag) ==
  [totalEntries |-> stats.totalEntries, averageMood |-> stats.averageMood,
   averageDose |-> stats.averageDose,
   averageClonazepamDrops |-> stats.averageClonazepamDrops, dataSource |-> tag]

----------------------------------------------------------------------------
(* EdgeConfigStore: the remote reads, over the value of the key mood_entries *)

\* get(MOOD_DATA_KEY) inside try/catch: a failed request yields the empty list
EC_getMoodEntries(ok, value) == IF ok THEN value ELSE <<>>

\* entries.find(entry => entry.date === date) || null: a list of none or one
EC_getMoodEntryByDate(entries, date) ==
  LET hit == SelectSeq(entries, LAMBDA e : e.date = date)
  IN IF hit = <<>> THEN <<>> ELSE <<Head(hit)>>

EC_getMoodEntriesForMonth(entries, year, month) ==
  SelectSeq(entries, LAMBDA e : startsWith(e.date, YearMonth(year, month)))

EC_getMoodEntriesInRange(entries, startDate, endDate) ==
  SelectSeq(entries, LAMBDA e : e.date >= startDate /\ e.date <= endDate)

EC_searchMoodEntries(entries, searchTerm) ==
  SelectSeq(entries,
            LAMBDA e : includes(toLowerCase(e.comment), toLowerCase(searchTerm)))

EC_getMoodStats(entries) == Tagged(StatsOf(entries), "edge-config")

\* a validator that does not look at the dose
validateMoodEntry_noDose(entry) ==
  /\ "date" \in DOMAIN entry
  /\ "mood" \in DOMAIN entry
  /\ entry.mood >= 1 /\ entry.mood <= 5
  /\ "clonazepamDrops" \in DOMAIN entry
  /\ "comment" \in DOMAIN entry

\* validateMoodEntry(entry): typeof x === ... holds of a field that is there
validateMoodEntry(entry) ==
  /\ "date" \in DOMAIN entry
  /\ "mood" \in DOMAIN entry
  /\ entry.mood >= 1 /\ entry.mood <= 5
  /\ "dose" \in DOMAIN entry
  /\ entry.dose \in {0, 50, 100, 150}
  /\ "clonazepamDrops" \in DOMAIN entry
  /\ "comment" \in DOMAIN entry

\* entries.filter(this.validateMoodEntry)
EC_getValidatedMoodEntries(entries) == SelectSeq(entries, validateMoodEntry)

----------------------------------------------------------------------------
(* hybrid-config: the publishing side, over the Blob store and the four     *)
(* Edge Config keys it writes                                               *)

Publishers == {1, 2}

\* entries as the publishing side types them
PubA == [id |-> "a", date |-> 20250901, mood |-> 4]
PubB == [id |-> "b", date |-> 20250903, mood |-> 2]
PubC == [id |-> "c", date |-> 20250831, mood |-> 4]
PubLists == {<<>>, <<PubA>>, <<PubA, PubB>>, <<PubB, PubC, PubA>>}

\* new Date() at local midnight: the day the model's clock runs in
Today == 20250903

\* entryDate.getTime() in days, for the dates of 2025
DaysBeforeMonth == <<0, 31, 59, 90, 120, 151, 181, 212, 243, 273, 304, 334>>
DayNumber(d) == DaysBeforeMonth[(d \div 100) % 100] + (d % 100)

MapDate(entries) == [k \in 1..Len(entries) |-> entries[k].date]

\* .sort((a, b) => b.getTime() - a.getTime())
RECURSIVE sortDescending(_)
sortDescending(s) ==
  IF s = <<>>
  THEN <<>>
  ELSE LET k == CHOOSE i \in 1..Len(s) : \A j \in 1..Len(s) : s[i] >= s[j]
       IN  <<s[k]>> \o sortDescending(SubSeq(s, 1, k - 1) \o SubSeq(s, k + 1, Len(s)))

\* the loop over sortedDates: it counts a date when its distance in days from
\* currentDate equals the count so far, and moves currentDate back one day
RECURSIVE streakLoop(_, _, _)
streakLoop(sortedDates, streakDays, currentDay) ==
  IF sortedDates = <<>>
  THEN streakDays
  ELSE IF currentDay - DayNumber(Head(sortedDates)) = streakDays
       THEN streakLoop(Tail(sortedDates), streakDays + 1, currentDay - 1)
       ELSE streakDays

moodLabels(mood) ==
  CASE mood = 1 -> "very_sad"
    [] mood = 2 -> "sad"
    [] mood = 3 -> "neutral"
    [] mood = 4 -> "happy"
    [] mood = 5 -> "very_happy"
    [] OTHER -> "neutral"

\* the keys of moodCounts in the order they were inserted
RECURSIVE moodKeys(_, _)
moodKeys(entries, seen) ==
  IF entries = <<>>
  THEN seen
  ELSE LET label == moodLabels(Head(entries).mood)
       IN  moodKeys(Tail(entries),
                    IF \E k \in 1..Len(seen) : seen[k] = label
                    THEN seen ELSE Append(seen, label))

moodCounts(entries, label) ==
  Cardinality({k \in 1..Len(entries) : moodLabels(entries[k].mood) = label})

\* .reduce((a, b) => moodCounts[a[0]] > moodCounts[b[0]] ? a : b)
RECURSIVE reduceMostFrequent(_, _, _)
reduceMostFrequent(a, keys, entries) ==
  IF keys = <<>>
  THEN a
  ELSE reduceMostFrequent(
         IF moodCounts(entries, a) > moodCounts(entries, Head(keys))
         THEN a ELSE Head(keys),
         Tail(keys), entries)

\* Math.max(...entries.map(e => new Date(e.date).getTime()))
maxDate(entries) == Head(sortDescending(MapDate(entries)))

\* calculateMoodStats; averageMood in hundredths, lastEntryDate 0 when absent
calculateMoodStats(entries) ==
  IF Len(entries) = 0
  THEN [totalEntries |-> 0, averageMood |-> 0, streakDays |-> 0,
        mostFrequentMood |-> "neutral", lastEntryDate |-> 0]
  ELSE LET keys == moodKeys(entries, <<>>)
       IN  [totalEntries |-> Len(entries),
            averageMood |-> Round2(SumSeq(MapMood(entries)), Len(entries)),
            streakDays |-> streakLoop(sortDescending(MapDate(entries)), 0,
                                      DayNumber(Today)),
            mostFrequentMood |-> reduceMostFrequent(Head(keys), Tail(keys), entries),
            lastEntryDate |-> maxDate(entries)]

\* JSON.stringify(entries, null, 2): the text of a JSON array
JSON_stringify(entries) == [type |-> "json", array |-> entries]

\* the name updateMoodEntries uploads under, and the options it passes
EntriesFile == "mood_entries/blob-mood-entries.json"
updateMoodEntries_options == [access |-> "public", addRandomSuffix |-> FALSE]

\* the suffixes the Blob store can draw
Suffixes == {"x1", "x2"}

\* an upload that asks for a random suffix whatever the caller passed
uploadBlob_options_default(options) == [access |-> "public", addRandomSuffix |-> TRUE]

\* the options uploadBlob hands to put: options.access || 'public',
\* options.addRandomSuffix ?? true
uploadBlob_options(options) ==
  [access |-> IF "access" \in DOMAIN options THEN options.access ELSE "public",
   addRandomSuffix |-> IF "addRandomSuffix" \in DOMAIN options
                       THEN options.addRandomSuffix ELSE TRUE]

\* the pathname put stores under; the url of the object names that pathname
put_pathname(filename, opts, s) ==
  [name |-> filename, suffix |-> IF opts.addRandomSuffix THEN s ELSE ""]
NoUrl == [name |-> "", suffix |-> ""]

\* the url of the object updateMoodEntries names
EntriesUrl == put_pathname(EntriesFile, updateMoodEntries_options, "")

\* put: the object at the pathname is created or replaced
put(store_, pathname, body) ==
  [q \in DOMAIN store_ \cup {pathname} |-> IF q = pathname THEN body ELSE store_[q]]

\* a check that asks for the store identifier only
configured_idOnly(e) == e.EDGE_CONFIG_ID

\* !(!edgeConfigId || !vercelApiToken)
configured(e) == e.EDGE_CONFIG_ID /\ e.VERCEL_API_TOKEN

Envs == [EDGE_CONFIG_ID : BOOLEAN, VERCEL_API_TOKEN : BOOLEAN]

\* the four upserts of one PATCH request
payload(moodEntriesUrl, moodStats, cacheVersion, nowv) ==
  [set |-> TRUE, mood_entries_url |-> moodEntriesUrl, mood_stats |-> moodStats,
   cache_version |-> cacheVersion, last_updated |-> nowv]

\* none of the four keys was ever written
NoMeta ==
  [set |-> FALSE, mood_entries_url |-> NoUrl,
   mood_stats |-> calculateMoodStats(<<>>), cache_version |-> "",
   last_updated |-> 0]

\* an await that continues with the next statement although the promise rejected
awaitResolved_always(ok) == TRUE

\* await inside try: the next statement runs only if the promise resolved
awaitResolved(ok) == ok

ConfigMessage == "EDGE_CONFIG_ID e VERCEL_API_TOKEN sao obrigatorios"
BlobMessage == "Falha ao atualizar mood entries no blob"
PatchMessage == "Falha ao atualizar Edge Config"

----------------------------------------------------------------------------
(* State *)

VARIABLES
  rows,                  \* the committed content of the table moodEntries
  nextId,                \* the table's auto-increment key generator
  tx,                    \* the read-write transaction of importData
  remote,                \* the value of the Edge Config key mood_entries
  lastSyncTime,          \* HybridMoodDataService.lastSyncTime
  cachedEdgeConfigData,  \* HybridMoodDataService.cachedEdgeConfigData
  cacheTimestamp,        \* HybridMoodDataService.cacheTimestamp
  now,                   \* Date.now()
  timers,                \* setTimeout callbacks scheduled and not yet run
  task,                  \* the calls in flight, and the result a call just returned
  netCall,               \* the step just taken issued a network request
  backup,                \* the backup file the browser downloaded last
  retry,                 \* the call of EdgeConfigStore.withRetry in flight
  blobs,                 \* the objects of the Blob store, by pathname
  meta,                  \* the Edge Config keys the publishing side writes
  env,                   \* process.env of the publishing side
  pub,                   \* the publish calls in flight, and their results
  hook                   \* the state of the hook useHybridConfig

vars ==
  <<rows, nextId, tx, remote, lastSyncTime, cachedEdgeConfigData,
    cacheTimestamp, now, timers, task, netCall, backup, retry, blobs, meta,
    env, pub, hook>>

publish == <<blobs, meta, env, pub, hook>>
extra == <<backup, retry, publish>>
service == <<lastSyncTime, cachedEdgeConfigData, cacheTimestamp>>
store == <<rows, nextId, tx>>

\* cachedEdgeConfigData: MoodEntry[] | null
NullCache == [has |-> FALSE, data |-> <<>>]
Cached(list) == [has |-> TRUE, data |-> list]

\* no backup was downloaded yet; a downloaded one is the text of a JSON array
NoBackup == [has |-> FALSE, data |-> <<>>]
Downloaded(data) == [has |-> TRUE, data |-> data]

NoTx == [active |-> FALSE, work |-> EmptyTable, nid |-> NoId, pre |-> EmptyTable]

NoRet == [kind |-> "none", val |-> <<>>]

\* no call of withRetry is in flight; of a call: the operation it wraps, its
\* parameter retries, how often the operation was invoked and how often it
\* rejected, whether a failed request was logged, and the result
NoRetry ==
  [pc |-> "idle", op |-> "none", retries |-> 0, calls |-> 0, fails |-> 0,
   log |-> FALSE, ret |-> NoRet]

\* useHybridConfig: the state entries, the entries the callbacks of the last
\* render closed over, per call in flight its stage and the entries its
\* callback closed over, the flags syncing and error, the state config, and
\* how many mutations were called
NoConfig == [loaded |-> FALSE, mood_stats |-> calculateMoodStats(<<>>),
             mood_entries_url |-> NoUrl]

NoHook ==
  [entries |-> <<>>, rendered |-> <<>>,
   run |-> [p \in Publishers |-> "none"],
   base |-> [p \in Publishers |-> <<>>],
   syncing |-> FALSE, error |-> FALSE, config |-> NoConfig, calls |-> 0]

\* crypto.randomUUID() of the call of caller p
randomUUID(p) == IF p = 1 THEN "n1" ELSE "n2"

\* the forms the user submits, and the changes of an update
HookInputs == {[date |-> 20250901, mood |-> 4]}
HookUpdates == {[mood |-> 5]}

\* [...entries, newEntry]; the two timestamps of newEntry are left out
hook_addEntry(entries, entryData, id) ==
  Append(entries, [id |-> id, date |-> entryData.date, mood |-> entryData.mood])

\* entries.map(entry => entry.id === id ? {...entry, ...updates} : entry)
hook_updateEntry(entries, id, updates) ==
  [k \in 1..Len(entries) |->
     IF entries[k].id = id THEN [entries[k] EXCEPT !.mood = updates.mood]
     ELSE entries[k]]

\* entries.filter(entry => entry.id !== id)
hook_deleteEntry(entries, id) == SelectSeq(entries, LAMBDA e : e.id # id)

\* the lists a mutation of caller p may publish when its callback closed
\* over entries
Mutations(entries, p) ==
  {hook_addEntry(entries, d, randomUUID(p)) : d \in HookInputs}
    \cup {hook_updateEntry(entries, randomUUID(q), u) :
             q \in Publishers, u \in HookUpdates}
    \cup {hook_deleteEntry(entries, randomUUID(q)) : q \in Publishers}

\* getHybridConfig(): the keys read together, or {} when the read fails
getHybridConfig(ok, m) ==
  IF ok /\ m.set
  THEN [loaded |-> TRUE, mood_stats |-> m.mood_stats,
        mood_entries_url |-> m.mood_entries_url]
  ELSE [NoConfig EXCEPT !.loaded = ok]

\* no publish call is in flight; of a call: the function called, the list and
\* the url and statistics it holds, how many uploads and PATCH requests it
\* issued, the payload of the request in flight, whether console.error was
\* called, the result, and whether the route POST /api/sync made the call
NoPub ==
  [pc |-> "idle", op |-> "none", entries |-> <<>>, url |-> NoUrl,
   stats |-> calculateMoodStats(<<>>), uploads |-> 0, upserts |-> 0,
   sent |-> NoMeta, log |-> FALSE, ret |-> NoRet, via |-> "none"]

NoBlobs == [q \in {} |-> NoUrl]

NoLoc == [t0 |-> 0, list |-> <<>>, aux |-> NoId, have |-> FALSE, src |-> "none"]
IdleTask ==
  [pc |-> "idle", op |-> "none", arg |-> <<>>, loc |-> NoLoc, ret |-> NoRet,
   log |-> FALSE]

\* a task that can take a new call
Free(t) == task[t].pc \in {"idle", "done"}

Finished(op, arg, src, ret, log) ==
  [pc |-> "done", op |-> op, arg |-> arg, loc |-> [NoLoc EXCEPT !.src = src],
   ret |-> ret, log |-> log]

Running(pc, op, arg, loc, log) ==
  [pc |-> pc, op |-> op, arg |-> arg, loc |-> loc, ret |-> NoRet, log |-> log]

----------------------------------------------------------------------------
(* Decisions and catch blocks of HybridMoodDataService *)

\* a local check that asks for more than one entry
getAllEntries_hasLocal_two(localEntries) == Len(localEntries) > 1

\* if (localEntries.length > 0)
getAllEntries_hasLocal(localEntries) == Len(localEntries) > 0

\* if (edgeConfigEntries.length > 0)
getAllEntries_hasRemote(edgeConfigEntries) == Len(edgeConfigEntries) > 0

\* catch of getAllEntries: return []
getAllEntries_catch == [kind |-> "list", val |-> <<>>]

\* an import that skips a list of one entry
importEdgeConfigDataToLocal_skipsOne(entries) == Len(entries) > 1

\* if (edgeConfigEntries.length > 0) of importEdgeConfigDataToLocal
importEdgeConfigDataToLocal_imports(entries) == Len(entries) > 0

\* a cache that is never taken as valid
cacheValid_never(cache, nowv, stamp) == FALSE

\* a cache that is still taken as valid at the moment it expires
cacheValid_inclusive(cache, nowv, stamp) == cache.has /\ (nowv - stamp) <= CACHE_EXPIRY

\* this.cachedEdgeConfigData && (now - this.cacheTimestamp) < this.CACHE_EXPIRY
cacheValid(cache, nowv, stamp) == cache.has /\ (nowv - stamp) < CACHE_EXPIRY

\* a throttle that lets every call through
syncDue_always(nowv, last) == TRUE

\* the negation of: if (now - this.lastSyncTime < this.SYNC_INTERVAL) return
syncDue(nowv, last) == ~(nowv - last < SYNC_INTERVAL)

\* a comparison that also takes a list of the same length as newer
remoteIsNewer_orSame(edgeConfigEntries, localLen) == Len(edgeConfigEntries) >= localLen

\* if (edgeConfigEntries.length > localEntries.length)
remoteIsNewer(edgeConfigEntries, localLen) == Len(edgeConfigEntries) > localLen

Void == [kind |-> "void", val |-> <<>>]
Error == [kind |-> "error", val |-> <<>>]
ErrorOf(message) == [kind |-> "error", val |-> <<message>>]
UrlOf(url) == [kind |-> "url", val |-> <<url>>]
ListOf(entries) == [kind |-> "list", val |-> entries]

ZeroStats(tag) ==
  Tagged([totalEntries |-> 0, averageMood |-> 0, averageDose |-> 0,
          averageClonazepamDrops |-> 0], tag)

\* the five queries that read the remote without the cache
QueryCalls ==
  {<<"getEntryByDate", 20250902>>}
    \cup {<<"getEntriesForMonth", m>> : m \in Months}
    \cup {<<"getEntriesInRange", r>> : r \in Ranges}
    \cup {<<"searchEntries", s>> : s \in SearchTerms}
    \cup {<<"getStats", <<>>>>}

\* the first half of a query: what MoodCalendarDB answers
Hybrid_local(op, arg, r) ==
  CASE op = "getEntryByDate" -> [kind |-> "entry", val |-> DB_getEntryByDate(r, arg)]
    [] op = "getEntriesForMonth" -> ListOf(DB_getEntriesForMonth(r, arg[1], arg[2]))
    [] op = "getEntriesInRange" -> ListOf(DB_getEntriesInRange(r, arg[1], arg[2]))
    [] op = "searchEntries" -> ListOf(DB_searchEntries(r, arg))
    [] op = "getStats" ->
         [kind |-> "stats", val |-> <<Tagged(DB_getStats(r), "indexeddb")>>]

\* if (localEntry), if (localEntries.length > 0), if (localStats.totalEntries > 0)
Hybrid_localHit(op, res) ==
  IF op = "getStats" THEN res.val[1].totalEntries > 0 ELSE Len(res.val) > 0

\* the second half of a query: the answer of EdgeConfigStore
Hybrid_remote(op, arg, entries) ==
  CASE op = "getEntryByDate" ->
         [kind |-> "entry", val |-> EC_getMoodEntryByDate(entries, arg)]
    [] op = "getEntriesForMonth" ->
         ListOf(EC_getMoodEntriesForMonth(entries, arg[1], arg[2]))
    [] op = "getEntriesInRange" ->
         ListOf(EC_getMoodEntriesInRange(entries, arg[1], arg[2]))
    [] op = "searchEntries" -> ListOf(EC_searchMoodEntries(entries, arg))
    [] op = "getStats" -> [kind |-> "stats", val |-> <<EC_getMoodStats(entries)>>]

\* catch blocks that rethrow
Hybrid_catch_rethrow(op) == Error

\* the catch blocks of the five queries
Hybrid_catch(op) ==
  CASE op = "getEntryByDate" -> [kind |-> "entry", val |-> <<>>]
    [] op = "getStats" -> [kind |-> "stats", val |-> <<ZeroStats("error")>>]
    [] OTHER -> ListOf(<<>>)

\* catch blocks that log and return normally
Hybrid_writeCatch_swallow(error) == Void

\* the catch blocks of saveEntry, updateEntry, deleteEntry: throw error
Hybrid_writeCatch(error) == error

----------------------------------------------------------------------------
(* MoodCalendarDB.importData: clear and bulkAdd inside one transaction *)

\* no transaction: every write of the import is visible at once
TxVisible_work(committed, work) == work

\* db.transaction('rw', ...): what other transactions read of the table while
\* the import has written `work`
TxVisible(committed, work) == committed

RECURSIVE bulkAdd_keepsIds(_, _, _)
\* a bulkAdd that stores an object under the id it carries
bulkAdd_keepsIds(work, entries, nid) ==
  IF entries = <<>> THEN work
  ELSE LET e == Head(entries)
           key == IF "id" \in DOMAIN e /\ e.id # NoId THEN e.id ELSE nid
       IN bulkAdd_keepsIds([i \in DOMAIN work \cup {key} |->
                              IF i = key THEN StripId(e) ELSE work[i]],
                           Tail(entries), nid + 1)

RECURSIVE bulkAdd(_, _, _)
\* bulkAdd(entries.map(entry => ({ ...entry, id: undefined }))): every object
\* gets the next key of the generator
bulkAdd(work, entries, nid) ==
  IF entries = <<>> THEN work
  ELSE bulkAdd([i \in DOMAIN work \cup {nid} |->
                  IF i = nid THEN StripId(Head(entries)) ELSE work[i]],
               Tail(entries), nid + 1)

\* a validation that only asks for an array
importMoodData_arrayOnly(file) == file.isArray

\* the validation loop of importMoodData
importMoodData_valid(file) ==
  /\ file.isArray
  /\ \A k \in 1..Len(file.data) :
       LET entry == file.data[k]
       IN ~(\/ "date" \notin DOMAIN entry
            \/ entry.date = 0
            \/ "dose" \notin DOMAIN entry
            \/ "mood" \notin DOMAIN entry)

\* an update that stores nothing
Merge_none(obj, changes) == obj

\* Table.update(key, changes): the stored object with the changes applied
Merge(obj, changes) ==
  [f \in DOMAIN obj |-> IF f \in DOMAIN changes THEN changes[f] ELSE obj[f]]

\* what earlier sessions may have left in the table when the page loads
StoredLists == {<<>>, <<MkEntry(20250901, PayloadB)>>}

\* the page is loaded: the service is constructed over the persisted table
Init ==
  /\ \E l \in StoredLists :
       /\ rows = bulkAdd(EmptyTable, l, 1)
       /\ nextId = Len(l) + 1
  /\ tx = NoTx
  /\ remote \in RemoteLists
  /\ lastSyncTime = 0
  /\ cachedEdgeConfigData = NullCache
  /\ cacheTimestamp = 0
  /\ now = StartTime
  /\ timers = 0
  /\ task = [t \in Tasks |-> IdleTask]
  /\ netCall = FALSE
  /\ backup = NoBackup
  /\ retry = NoRetry
  /\ blobs = NoBlobs
  /\ meta = NoMeta
  /\ env = [EDGE_CONFIG_ID |-> TRUE, VERCEL_API_TOKEN |-> TRUE]
  /\ pub = [p \in Publishers |-> NoPub]
  /\ hook = NoHook

\* a load while the operator has two entries published
InitPublished == Init /\ remote = <<RemoteA, RemoteB>>

\* the first load of the application: nothing is stored yet
InitEmpty == Init /\ remote = <<RemoteA, RemoteB>> /\ rows = EmptyTable

----------------------------------------------------------------------------
(* HybridMoodDataService.getAllEntries *)

\* a finished call shows its result in the state its last step leads to; the
\* next step of any task empties the slot
Settled(rec) == IF rec.pc = "done" THEN IdleTask ELSE rec

SetTask(t, rec) == task' = [u \in Tasks |-> IF u = t THEN rec ELSE Settled(task[u])]

\* a step of the environment: no call advances
NoTask == task' = [u \in Tasks |-> Settled(task[u])]

\* syncInBackground(): the throttle check, the marker and the setTimeout
syncInBackground ==
  IF syncDue(now, lastSyncTime)
  THEN /\ timers < MaxTimers
       /\ lastSyncTime' = now
       /\ timers' = timers + 1
  ELSE UNCHANGED <<lastSyncTime, timers>>

\* getAllEntries once it holds the remote list: import and return it, or []
GetAll_After(list, src, log) ==
  IF getAllEntries_hasRemote(list)
  THEN IF importEdgeConfigDataToLocal_imports(list)
       THEN Running("imp_clear", "getAllEntries", <<>>,
                    [NoLoc EXCEPT !.list = list, !.src = src], log)
       ELSE Finished("getAllEntries", <<>>, src, ListOf(list), log)
  ELSE Finished("getAllEntries", <<>>, src, ListOf(<<>>), log)

\* MoodCalendarDB.getAllEntries() rejects: the catch returns []
GetAll_LocalFail(t) ==
  /\ Free(t)
  /\ ~tx.active
  /\ SetTask(t, Finished("getAllEntries", <<>>, "none", getAllEntries_catch, TRUE))
  /\ netCall' = FALSE
  /\ UNCHANGED <<store, remote, service, now, timers, extra>>

\* a getAllEntries that fetches the remote list itself and waits for it
GetAll_LocalHit_awaitsSync(t) ==
  /\ Free(t)
  /\ ~tx.active
  /\ getAllEntries_hasLocal(DB_getAllEntries(rows))
  /\ lastSyncTime' = now
  /\ SetTask(t, Running("ga_fetch", "getAllEntries", <<>>,
                         [NoLoc EXCEPT !.t0 = now, !.src = "fetch"], FALSE))
  /\ netCall' = TRUE
  /\ UNCHANGED <<store, remote, cachedEdgeConfigData, cacheTimestamp, now, timers, extra>>

\* local data: trigger the background sync and return the local list
GetAll_LocalHit(t) ==
  /\ Free(t)
  /\ ~tx.active
  /\ getAllEntries_hasLocal(DB_getAllEntries(rows))
  /\ syncInBackground
  /\ SetTask(t, Finished("getAllEntries", <<>>, "local",
                         ListOf(DB_getAllEntries(rows)), FALSE))
  /\ netCall' = FALSE
  /\ UNCHANGED <<store, remote, cachedEdgeConfigData, cacheTimestamp, now, extra>>

\* no local data: getCachedEdgeConfigData() answers from the cache or fetches
GetAll_LocalMiss(t) ==
  /\ Free(t)
  /\ ~tx.active
  /\ ~getAllEntries_hasLocal(DB_getAllEntries(rows))
  /\ IF cacheValid(cachedEdgeConfigData, now, cacheTimestamp)
     THEN /\ SetTask(t, GetAll_After(cachedEdgeConfigData.data, "cache", FALSE))
          /\ netCall' = FALSE
     ELSE /\ SetTask(t, Running("ga_fetch", "getAllEntries", <<>>,
                                [NoLoc EXCEPT !.t0 = now, !.src = "fetch"], FALSE))
          /\ netCall' = TRUE
  /\ UNCHANGED <<store, remote, service, now, timers, extra>>

\* the fetch of getCachedEdgeConfigData() completes: the cache is replaced
GetAll_Fetch(t) ==
  /\ task[t].pc = "ga_fetch"
  /\ \E ok \in BOOLEAN :
       LET entries == EC_getMoodEntries(ok, remote)
       IN /\ cachedEdgeConfigData' = Cached(entries)
          /\ cacheTimestamp' = task[t].loc.t0
          /\ SetTask(t, GetAll_After(entries, "fetch", task[t].log \/ ~ok))
  /\ netCall' = FALSE
  /\ UNCHANGED <<store, remote, lastSyncTime, now, timers, extra>>

----------------------------------------------------------------------------
(* The five queries that fall back to EdgeConfigStore directly *)

Query_Local(t, op, arg) ==
  /\ Free(t)
  /\ ~tx.active
  /\ \E ok \in BOOLEAN :
       IF ~ok
       THEN /\ SetTask(t, Finished(op, arg, "none", Hybrid_catch(op), TRUE))
            /\ netCall' = FALSE
       ELSE IF Hybrid_localHit(op, Hybrid_local(op, arg, rows))
            THEN /\ SetTask(t, Finished(op, arg, "local",
                                        Hybrid_local(op, arg, rows), FALSE))
                 /\ netCall' = FALSE
            ELSE /\ SetTask(t, Running("q_fetch", op, arg,
                                       [NoLoc EXCEPT !.src = "fetch"], FALSE))
                 /\ netCall' = TRUE
  /\ UNCHANGED <<store, remote, service, now, timers, extra>>

Query_Fetch(t) ==
  /\ task[t].pc = "q_fetch"
  /\ \E ok \in BOOLEAN :
       SetTask(t, Finished(task[t].op, task[t].arg, "fetch",
                           Hybrid_remote(task[t].op, task[t].arg,
                                         EC_getMoodEntries(ok, remote)),
                           ~ok))
  /\ netCall' = FALSE
  /\ UNCHANGED <<store, remote, service, now, timers, extra>>

----------------------------------------------------------------------------
(* The write path: saveEntry, updateEntry, deleteEntry, and clearAllEntries *)

\* a write path that triggers the background sync as the read path does
WritePath_syncs == syncInBackground

\* saveEntry, updateEntry, deleteEntry delegate to MoodCalendarDB and call
\* nothing else: no syncInBackground(), no cache access
WritePath_service == UNCHANGED <<lastSyncTime, timers>>

\* saveEntry, first request: where('date').equals(entry.date).first()
Save_Lookup(t, entry) ==
  /\ Free(t)
  /\ ~tx.active
  /\ \E ok \in BOOLEAN :
       IF ok
       THEN LET existingEntry == DB_getEntryByDate(rows, entry.date)
            IN SetTask(t, Running("save_write", "saveEntry", entry,
                 [NoLoc EXCEPT !.aux = IF existingEntry = <<>> THEN NoId
                                       ELSE existingEntry[1].id], FALSE))
       ELSE SetTask(t, Finished("saveEntry", entry, "none",
                                Hybrid_writeCatch(Error), TRUE))
  /\ netCall' = FALSE
  /\ WritePath_service
  /\ UNCHANGED <<store, remote, cachedEdgeConfigData, cacheTimestamp, now, extra>>

\* saveEntry, second request: update(existingEntry.id, entry) or add(entry)
Save_Write(t) ==
  /\ task[t].pc = "save_write"
  /\ ~tx.active
  /\ LET entry == task[t].arg
         id == task[t].loc.aux
     IN \E ok \in BOOLEAN :
          IF ~ok
          THEN /\ SetTask(t, Finished("saveEntry", entry, "none",
                                      Hybrid_writeCatch(Error), TRUE))
               /\ UNCHANGED <<rows, nextId>>
          ELSE IF id # NoId
               THEN /\ rows' = IF id \in DOMAIN rows
                               THEN [rows EXCEPT ![id] = Merge(rows[id], entry)]
                               ELSE rows
                    /\ UNCHANGED nextId
                    /\ SetTask(t, Finished("saveEntry", entry, "update",
                                           [kind |-> "id", val |-> <<id>>], FALSE))
               ELSE /\ nextId <= MaxId
                    /\ rows' = bulkAdd(rows, <<entry>>, nextId)
                    /\ nextId' = nextId + 1
                    /\ SetTask(t, Finished("saveEntry", entry, "add",
                                           [kind |-> "id", val |-> <<nextId>>], FALSE))
  /\ netCall' = FALSE
  /\ WritePath_service
  /\ UNCHANGED <<tx, remote, cachedEdgeConfigData, cacheTimestamp, now, extra>>

\* updateEntry(id, updates): Table.update answers the number of rows changed,
\* which is 0 when the key is absent and when the changes change nothing
Update(t, id, updates) ==
  /\ Free(t)
  /\ ~tx.active
  /\ \E ok \in BOOLEAN :
       IF ~ok
       THEN /\ SetTask(t, Finished("updateEntry", <<id, updates>>, "none",
                                   Hybrid_writeCatch(Error), TRUE))
            /\ UNCHANGED rows
       ELSE /\ rows' = IF id \in DOMAIN rows
                       THEN [rows EXCEPT ![id] = Merge(rows[id], updates)]
                       ELSE rows
            /\ SetTask(t, Finished("updateEntry", <<id, updates>>, "none",
                 [kind |-> "id",
                  val |-> <<IF id \in DOMAIN rows /\ Merge(rows[id], updates) # rows[id]
                            THEN 1 ELSE 0>>],
                 FALSE))
  /\ netCall' = FALSE
  /\ WritePath_service
  /\ UNCHANGED <<nextId, tx, remote, cachedEdgeConfigData, cacheTimestamp, now, extra>>

\* deleteEntry(id)
Delete(t, id) ==
  /\ Free(t)
  /\ ~tx.active
  /\ \E ok \in BOOLEAN :
       IF ~ok
       THEN /\ SetTask(t, Finished("deleteEntry", id, "none",
                                   Hybrid_writeCatch(Error), TRUE))
            /\ UNCHANGED rows
       ELSE /\ rows' = [i \in DOMAIN rows \ {id} |-> rows[i]]
            /\ SetTask(t, Finished("deleteEntry", id, "none", Void, FALSE))
  /\ netCall' = FALSE
  /\ WritePath_service
  /\ UNCHANGED <<nextId, tx, remote, cachedEdgeConfigData, cacheTimestamp, now, extra>>

\* MoodCalendarDB.clearAllEntries(), called by the data-management panel
ClearAll(t) ==
  /\ Free(t)
  /\ ~tx.active
  /\ rows' = EmptyTable
  /\ SetTask(t, Finished("clearAllEntries", <<>>, "none", Void, FALSE))
  /\ netCall' = FALSE
  /\ UNCHANGED <<nextId, tx, remote, service, now, timers, extra>>

----------------------------------------------------------------------------
(* importData, as the steps of its transaction, and its three callers *)

\* importMoodData(file): parse and validate, then importData(data)
ImportFile(t, file) ==
  /\ Free(t)
  /\ IF importMoodData_valid(file)
     THEN SetTask(t, Running("imp_clear", "importMoodData", file,
                             [NoLoc EXCEPT !.list = file.data], FALSE))
     ELSE SetTask(t, Finished("importMoodData", file, "none", Error, TRUE))
  /\ netCall' = FALSE
  /\ UNCHANGED <<store, remote, service, now, timers, extra>>

\* an import whose transaction starts from the rows of the table, uncleared
ImpClear_keepsRows(t) ==
  /\ task[t].pc = "imp_clear"
  /\ ~tx.active
  /\ nextId + Len(task[t].loc.list) - 1 <= MaxId + 1
  /\ tx' = [active |-> TRUE, work |-> rows, nid |-> nextId, pre |-> rows]
  /\ rows' = TxVisible(rows, rows)
  /\ SetTask(t, [task[t] EXCEPT !.pc = "imp_add"])
  /\ netCall' = FALSE
  /\ UNCHANGED <<nextId, remote, service, now, timers, extra>>

\* an import that compares the lengths again before it clears the table
ImpClear_rechecks(t) ==
  /\ task[t].pc = "imp_clear"
  /\ ~tx.active
  /\ nextId + Len(task[t].loc.list) - 1 <= MaxId + 1
  /\ IF Len(task[t].loc.list) > Len(DB_getAllEntries(rows))
     THEN /\ tx' = [active |-> TRUE, work |-> EmptyTable, nid |-> nextId, pre |-> rows]
          /\ SetTask(t, [task[t] EXCEPT !.pc = "imp_add"])
     ELSE /\ tx' = tx
          /\ SetTask(t, Finished(task[t].op, <<>>, task[t].loc.src, Void, task[t].log))
  /\ rows' = rows
  /\ netCall' = FALSE
  /\ UNCHANGED <<nextId, remote, service, now, timers, extra>>

\* the transaction starts and runs db.moodEntries.clear()
ImpClear(t) ==
  /\ task[t].pc = "imp_clear"
  /\ ~tx.active
  /\ nextId + Len(task[t].loc.list) - 1 <= MaxId + 1
  /\ tx' = [active |-> TRUE, work |-> EmptyTable, nid |-> nextId, pre |-> rows]
  /\ rows' = TxVisible(rows, EmptyTable)
  /\ SetTask(t, [task[t] EXCEPT !.pc = "imp_add"])
  /\ netCall' = FALSE
  /\ UNCHANGED <<nextId, remote, service, now, timers, extra>>

\* bulkAdd runs: it adds every object, or fails after the first k of them
ImpAdd(t) ==
  /\ task[t].pc = "imp_add"
  /\ \E k \in 0..Len(task[t].loc.list) :
       LET work == bulkAdd(tx.work, SubSeq(task[t].loc.list, 1, k), tx.nid)
       IN /\ tx' = [tx EXCEPT !.work = work, !.nid = tx.nid + k]
          /\ rows' = TxVisible(rows, work)
          /\ SetTask(t, [task[t] EXCEPT !.pc = "imp_end",
                                        !.loc.have = (k = Len(task[t].loc.list))])
  /\ netCall' = FALSE
  /\ UNCHANGED <<nextId, remote, service, now, timers, extra>>

\* what the caller of importData does when the transaction has ended
ImpEnd_After(t, ok) ==
  LET op == task[t].op
      log == task[t].log \/ ~ok
  IN CASE op = "getAllEntries" ->
            Finished(op, <<>>, task[t].loc.src, ListOf(task[t].loc.list), log)
       [] op = "importMoodData" ->
            IF ok
            THEN Finished(op, task[t].arg, "none",
                          [kind |-> "count", val |-> <<Len(task[t].loc.list)>>], log)
            ELSE Finished(op, task[t].arg, "none", Error, log)
       [] OTHER -> Finished(op, <<>>, task[t].loc.src, Void, log)

\* the transaction commits, or aborts and leaves the table as it was
ImpEnd(t) ==
  /\ task[t].pc = "imp_end"
  /\ rows' = IF task[t].loc.have THEN tx.work ELSE rows
  /\ nextId' = IF task[t].loc.have THEN tx.nid ELSE nextId
  /\ tx' = NoTx
  /\ SetTask(t, ImpEnd_After(t, task[t].loc.have))
  /\ netCall' = FALSE
  /\ UNCHANGED <<remote, service, now, timers, extra>>

----------------------------------------------------------------------------
(* The backup file: exportMoodData writes it, importMoodData reads it back *)

\* exportMoodData(): exportData(), JSON.stringify, and the download
ExportFile(t) ==
  /\ Free(t)
  /\ ~tx.active
  /\ \E ok \in BOOLEAN :
       IF ok
       THEN /\ backup' = Downloaded(DB_exportData(rows))
            /\ SetTask(t, Finished("exportMoodData", <<>>, "local", Void, FALSE))
       ELSE /\ backup' = backup
            /\ SetTask(t, Finished("exportMoodData", <<>>, "none", Error, TRUE))
  /\ netCall' = FALSE
  /\ UNCHANGED <<store, remote, service, now, timers, retry, publish>>

\* JSON.parse of the text of the downloaded backup
ParsedBackup == [isArray |-> TRUE, data |-> backup.data]

\* the user picks the downloaded backup in the file dialog of the import
RestoreBackup(t) ==
  /\ backup.has
  /\ ImportFile(t, ParsedBackup)

----------------------------------------------------------------------------
(* performBackgroundSync, run by the timer of syncInBackground or by forceSync *)

Pending == 0 - 1

\* Promise.all([getAllEntries(), getCachedEdgeConfigData()]) up to the awaits
Sync_Begin(op, cache) ==
  IF cacheValid(cache, now, cacheTimestamp)
  THEN Running("sync_wait", op, <<>>,
               [NoLoc EXCEPT !.list = cache.data, !.have = TRUE, !.aux = Pending,
                             !.src = "cache"], FALSE)
  ELSE Running("sync_wait", op, <<>>,
               [NoLoc EXCEPT !.t0 = now, !.aux = Pending, !.src = "fetch"], FALSE)

\* both lists are known: import the remote list if it is the longer one
Sync_Decide(t, list, localLen, log) ==
  IF remoteIsNewer(list, localLen) /\ importEdgeConfigDataToLocal_imports(list)
  THEN Running("imp_clear", task[t].op, <<>>,
               [NoLoc EXCEPT !.list = list, !.src = task[t].loc.src], log)
  ELSE Finished(task[t].op, <<>>, task[t].loc.src, Void, log)

\* the setTimeout callback of syncInBackground runs
TimerFire(t) ==
  /\ Free(t)
  /\ timers > 0
  /\ timers' = timers - 1
  /\ SetTask(t, Sync_Begin("backgroundSync", cachedEdgeConfigData))
  /\ netCall' = ~cacheValid(cachedEdgeConfigData, now, cacheTimestamp)
  /\ UNCHANGED <<store, remote, service, now, extra>>

\* a forceSync that resets the marker and leaves the cache as it is
ForceSync_keepsCache(t) ==
  /\ Free(t)
  /\ lastSyncTime' = 0
  /\ SetTask(t, Sync_Begin("forceSync", cachedEdgeConfigData))
  /\ netCall' = ~cacheValid(cachedEdgeConfigData, now, cacheTimestamp)
  /\ UNCHANGED <<store, remote, cachedEdgeConfigData, cacheTimestamp, now, timers, extra>>

\* a forceSync that begins by writing the local list to the key mood_entries
ForceSync_pushes(t) ==
  /\ Free(t)
  /\ lastSyncTime' = 0
  /\ cachedEdgeConfigData' = NullCache
  /\ remote' = toArray(rows)
  /\ SetTask(t, Sync_Begin("forceSync", NullCache))
  /\ netCall' = TRUE
  /\ UNCHANGED <<store, cacheTimestamp, now, timers, extra>>

\* forceSync(): reset the marker and the cache, then performBackgroundSync()
ForceSync(t) ==
  /\ Free(t)
  /\ lastSyncTime' = 0
  /\ cachedEdgeConfigData' = NullCache
  /\ SetTask(t, Sync_Begin("forceSync", NullCache))
  /\ netCall' = TRUE
  /\ UNCHANGED <<store, remote, cacheTimestamp, now, timers, extra>>

\* the local read of the sync body completes
Sync_Local(t) ==
  /\ task[t].pc = "sync_wait"
  /\ task[t].loc.aux = Pending
  /\ ~tx.active
  /\ \E ok \in BOOLEAN :
       IF ok
       THEN IF task[t].loc.have
            THEN SetTask(t, Sync_Decide(t, task[t].loc.list,
                                        Len(DB_getAllEntries(rows)), task[t].log))
            ELSE SetTask(t, [task[t] EXCEPT
                               !.loc.aux = Len(DB_getAllEntries(rows))])
       ELSE IF task[t].loc.have
            THEN SetTask(t, Finished(task[t].op, <<>>, task[t].loc.src, Void, TRUE))
            ELSE SetTask(t, [task[t] EXCEPT !.pc = "sync_orphan", !.ret = Void,
                                            !.log = TRUE])
  /\ netCall' = FALSE
  /\ UNCHANGED <<store, remote, service, now, timers, extra>>

\* the fetch of getCachedEdgeConfigData() inside the sync body completes
Sync_Fetch(t) ==
  /\ task[t].pc \in {"sync_wait", "sync_orphan"}
  /\ ~task[t].loc.have
  /\ \E ok \in BOOLEAN :
       LET entries == EC_getMoodEntries(ok, remote)
           log == task[t].log \/ ~ok
       IN /\ cachedEdgeConfigData' = Cached(entries)
          /\ cacheTimestamp' = task[t].loc.t0
          /\ IF task[t].pc = "sync_orphan"
             THEN SetTask(t, Finished(task[t].op, <<>>, "fetch", Void, log))
             ELSE IF task[t].loc.aux # Pending
                  THEN SetTask(t, Sync_Decide(t, entries, task[t].loc.aux, log))
                  ELSE SetTask(t, [task[t] EXCEPT !.loc.list = entries,
                                                  !.loc.have = TRUE, !.log = log])
  /\ netCall' = FALSE
  /\ UNCHANGED <<store, remote, lastSyncTime, now, timers, extra>>

\* clearCaches()
ClearCaches ==
  /\ cachedEdgeConfigData' = NullCache
  /\ cacheTimestamp' = 0
  /\ lastSyncTime' = 0
  /\ netCall' = FALSE
  /\ NoTask
  /\ UNCHANGED <<store, remote, now, timers, extra>>

----------------------------------------------------------------------------
(* EdgeConfigStore.withRetry and getMoodEntriesWithRetry *)

\* the operations withRetry is run with: the request get(MOOD_DATA_KEY), which
\* rejects when it fails, and getMoodEntries, which wraps that request
RetryOps == {"get", "getMoodEntries"}

\* how one invocation of the operation ends
Outcome(op, ok, value) ==
  IF op = "getMoodEntries"
  THEN [threw |-> FALSE, val |-> EC_getMoodEntries(ok, value), log |-> ~ok]
  ELSE [threw |-> ~ok, val |-> IF ok THEN value ELSE <<>>, log |-> FALSE]

\* a helper that gives up one attempt earlier
withRetry_again_short(retries) == retries > 1

\* if (retries > 0)
withRetry_again(retries) == retries > 0

\* withRetry(operation) is called: retries defaults to MAX_RETRIES and the
\* operation is invoked
Retry_Call(op) ==
  /\ retry.pc \in {"idle", "done"}
  /\ retry' = [NoRetry EXCEPT !.pc = "wait_op", !.op = op,
                              !.retries = MAX_RETRIES, !.calls = 1]
  /\ netCall' = TRUE
  /\ NoTask
  /\ UNCHANGED <<store, remote, service, now, timers, backup, publish>>

\* the operation settles: its value is returned, or the catch block waits
\* RETRY_DELAY for another attempt, or rethrows
Retry_OpEnds ==
  /\ retry.pc = "wait_op"
  /\ \E ok \in BOOLEAN :
       LET out == Outcome(retry.op, ok, remote)
           log == retry.log \/ out.log
       IN IF ~out.threw
          THEN retry' = [retry EXCEPT !.pc = "done", !.ret = ListOf(out.val),
                                      !.log = log]
          ELSE IF withRetry_again(retry.retries)
               THEN retry' = [retry EXCEPT !.pc = "delay", !.fails = @ + 1,
                                           !.log = log]
               ELSE retry' = [retry EXCEPT !.pc = "done", !.fails = @ + 1,
                                           !.ret = Error, !.log = log]
  /\ netCall' = FALSE
  /\ NoTask
  /\ UNCHANGED <<store, remote, service, now, timers, backup, publish>>

\* the delay is over: withRetry(operation, retries - 1) invokes the operation
Retry_DelayEnds ==
  /\ retry.pc = "delay"
  /\ retry' = [retry EXCEPT !.pc = "wait_op", !.retries = @ - 1, !.calls = @ + 1]
  /\ netCall' = TRUE
  /\ NoTask
  /\ UNCHANGED <<store, remote, service, now, timers, backup, publish>>

----------------------------------------------------------------------------
(* EdgeConfigStore called directly: the raw and the validated accessor, and  *)
(* the statistics                                                            *)

EC_result(op, ok, value) ==
  CASE op = "EC.getMoodEntries" -> ListOf(EC_getMoodEntries(ok, value))
    [] op = "EC.getValidatedMoodEntries" ->
         ListOf(EC_getValidatedMoodEntries(EC_getMoodEntries(ok, value)))
    [] op = "EC.getMoodStats" ->
         [kind |-> "stats", val |-> <<EC_getMoodStats(EC_getMoodEntries(ok, value))>>]

\* the accessor is called and issues its request
EC_Call(t, op) ==
  /\ Free(t)
  /\ SetTask(t, Running("ec_fetch", op, <<>>, [NoLoc EXCEPT !.src = "fetch"], FALSE))
  /\ netCall' = TRUE
  /\ UNCHANGED <<store, remote, service, now, timers, extra>>

\* the request settles; a failure is logged by getMoodEntries
EC_Fetch(t) ==
  /\ task[t].pc = "ec_fetch"
  /\ \E ok \in BOOLEAN :
       SetTask(t, Finished(task[t].op, <<>>, "fetch",
                           EC_result(task[t].op, ok, remote), ~ok))
  /\ netCall' = FALSE
  /\ UNCHANGED <<store, remote, service, now, timers, extra>>

----------------------------------------------------------------------------
(* hybrid-config: updateMoodEntries, updateEdgeConfig and syncMoodData      *)

PubFree(p) == pub[p].pc \in {"idle", "done"}

SetPub(p, rec) == pub' = [pub EXCEPT ![p] = rec]

\* updateEdgeConfig from its entry to the throw of the configuration error
\* or to the PATCH request it awaits
updateEdgeConfig_begin(rec, e, nowv) ==
  IF ~configured(e)
  THEN [rec EXCEPT !.pc = "done", !.ret = ErrorOf(ConfigMessage)]
  ELSE [rec EXCEPT !.pc = "patch", !.upserts = @ + 1,
                   !.sent = payload(rec.url, rec.stats, "1.0.0", nowv)]

\* updateEdgeConfig is called on its own
Pub_Config(p, moodEntriesUrl, moodStats) ==
  /\ PubFree(p)
  /\ SetPub(p, updateEdgeConfig_begin(
                 [NoPub EXCEPT !.op = "updateEdgeConfig", !.url = moodEntriesUrl,
                               !.stats = moodStats], env, now))
  /\ netCall' = (pub'[p].pc = "patch")
  /\ NoTask
  /\ UNCHANGED <<store, remote, service, now, timers, backup, retry, blobs, meta, env, hook>>

\* syncMoodData or updateMoodEntries is called: the statistics are computed
\* and the upload is requested
Pub_Upload(p, op, entries) ==
  /\ PubFree(p)
  /\ SetPub(p, [NoPub EXCEPT !.pc = "upload", !.op = op, !.entries = entries,
                             !.stats = IF op = "syncMoodData"
                                       THEN calculateMoodStats(entries)
                                       ELSE NoPub.stats,
                             !.uploads = 1])
  /\ netCall' = TRUE
  /\ NoTask
  /\ UNCHANGED <<store, remote, service, now, timers, backup, retry, blobs, meta, env, hook>>

\* the upload settles. A failure is logged and rethrown up to the caller; after
\* a success updateMoodEntries returns the url and syncMoodData goes on with
\* updateEdgeConfig, whose configuration error its catch logs
Pub_UploadEnds(p) ==
  /\ pub[p].pc = "upload"
  /\ \E ok \in BOOLEAN, s \in Suffixes :
       LET pathname == put_pathname(EntriesFile,
                                    uploadBlob_options(updateMoodEntries_options), s)
           url == IF ok THEN pathname ELSE NoUrl
           next == updateEdgeConfig_begin([pub[p] EXCEPT !.url = url], env, now)
       IN  /\ blobs' = IF ok THEN put(blobs, pathname, JSON_stringify(pub[p].entries))
                       ELSE blobs
           /\ IF pub[p].op = "syncMoodData" /\ awaitResolved(ok)
              THEN SetPub(p, [next EXCEPT !.log = (next.pc = "done")])
              ELSE SetPub(p, [pub[p] EXCEPT !.pc = "done", !.url = url,
                                            !.log = ~ok,
                                            !.ret = IF ok THEN UrlOf(url)
                                                    ELSE ErrorOf(BlobMessage)])
  /\ netCall' = (pub'[p].pc = "patch")
  /\ NoTask
  /\ UNCHANGED <<store, remote, service, now, timers, backup, retry, meta, env, hook>>

\* a PATCH whose failure removes the objects of the Blob store again
Pub_PatchEnds_rollsBack(p) ==
  /\ pub[p].pc = "patch"
  /\ \E ok \in BOOLEAN :
       /\ meta' = IF ok THEN pub[p].sent ELSE meta
       /\ blobs' = IF ok THEN blobs ELSE NoBlobs
       /\ SetPub(p, [pub[p] EXCEPT !.pc = "done", !.log = ~ok,
                                   !.ret = IF ok THEN Void
                                           ELSE ErrorOf(PatchMessage)])
  /\ netCall' = FALSE
  /\ NoTask
  /\ UNCHANGED <<store, remote, service, now, timers, backup, retry, env, hook>>

\* the PATCH request settles: the four keys are written together, or the
\* failure is logged and rethrown
Pub_PatchEnds(p) ==
  /\ pub[p].pc = "patch"
  /\ \E ok \in BOOLEAN :
       /\ meta' = IF ok THEN pub[p].sent ELSE meta
       /\ SetPub(p, [pub[p] EXCEPT !.pc = "done", !.log = ~ok,
                                   !.ret = IF ok THEN Void
                                           ELSE ErrorOf(PatchMessage)])
  /\ netCall' = FALSE
  /\ NoTask
  /\ UNCHANGED <<store, remote, service, now, timers, backup, retry, blobs, env, hook>>

\* NextResponse.json(..., { status })
Status(code) == [kind |-> "status", val |-> <<code>>]

\* an element of the list that is null
NullEntry == [null |-> TRUE]

\* request bodies: one that is not JSON, one whose entries is not a list, and
\* lists with a null element, an element without mood, one with mood 7, and
\* valid elements
RouteBodies ==
  { [json |-> FALSE, isArray |-> FALSE, entries |-> <<>>],
    [json |-> TRUE, isArray |-> FALSE, entries |-> <<>>],
    [json |-> TRUE, isArray |-> TRUE, entries |-> <<>>],
    [json |-> TRUE, isArray |-> TRUE, entries |-> <<PubA>>],
    [json |-> TRUE, isArray |-> TRUE, entries |-> <<PubA, PubB>>],
    [json |-> TRUE, isArray |-> TRUE, entries |-> <<PubA, NullEntry>>],
    [json |-> TRUE, isArray |-> TRUE,
     entries |-> <<PubA, [id |-> "b", date |-> 20250903]>>],
    [json |-> TRUE, isArray |-> TRUE,
     entries |-> <<[id |-> "b", date |-> 20250903, mood |-> 7]>>] }

\* the callback of entries.filter reads entry.id: of null it throws
route_filterThrows(entries) ==
  \E k \in 1..Len(entries) : "null" \in DOMAIN entries[k]

\* entry.id && entry.date && typeof entry.mood === 'number' && 1 <= mood <= 5
route_valid(entry) ==
  /\ "id" \in DOMAIN entry
  /\ "date" \in DOMAIN entry
  /\ "mood" \in DOMAIN entry
  /\ entry.mood >= 1
  /\ entry.mood <= 5

\* POST /api/sync up to its first response or to the await of syncMoodData
Route_Post(p, body) ==
  /\ PubFree(p)
  /\ IF ~body.json \/ (body.isArray /\ route_filterThrows(body.entries))
     THEN /\ SetPub(p, [NoPub EXCEPT !.pc = "done", !.op = "POST /api/sync",
                                     !.ret = Status(500), !.log = TRUE])
          /\ netCall' = FALSE
     ELSE IF \/ ~body.isArray
             \/ Len(SelectSeq(body.entries, route_valid)) # Len(body.entries)
          THEN /\ SetPub(p, [NoPub EXCEPT !.pc = "done", !.op = "POST /api/sync",
                                          !.ret = Status(400)])
               /\ netCall' = FALSE
          ELSE LET validEntries == SelectSeq(body.entries, route_valid)
               IN /\ SetPub(p, [NoPub EXCEPT
                                  !.pc = "upload", !.op = "syncMoodData",
                                  !.entries = validEntries,
                                  !.stats = calculateMoodStats(validEntries),
                                  !.uploads = 1, !.via = "route"])
                  /\ netCall' = TRUE
  /\ NoTask
  /\ UNCHANGED <<store, remote, service, now, timers, backup, retry, blobs, meta,
                 env, hook>>

\* syncMoodData has settled inside the route: the success response, or the
\* catch logs and answers 500
Route_Respond(p) ==
  /\ pub[p].pc = "done"
  /\ pub[p].via = "route"
  /\ SetPub(p, [pub[p] EXCEPT !.op = "POST /api/sync", !.via = "none",
                              !.log = (pub[p].ret.kind = "error"),
                              !.ret = IF pub[p].ret.kind = "error"
                                      THEN Status(500) ELSE Status(200)])
  /\ netCall' = FALSE
  /\ NoTask
  /\ UNCHANGED <<store, remote, service, now, timers, backup, retry, blobs, meta,
                 env, hook>>

\* the publishing side is deployed with another environment
Deploy(e) ==
  /\ e # env
  /\ env' = e
  /\ netCall' = FALSE
  /\ NoTask
  /\ UNCHANGED <<store, remote, service, now, timers, backup, retry, blobs, meta, pub, hook>>

\* a mutation that builds its list from the state entries as it stands
Hook_Mutate_fromState(p, id) ==
  /\ PubFree(p)
  /\ hook.run[p] = "none"
  /\ hook.calls < MaxCalls
  /\ \E list \in Mutations(hook.entries, p) :
       /\ Len(list) > Len(hook.entries) => \A k \in 1..Len(hook.entries) : hook.entries[k].id # id
       /\ SetPub(p, [NoPub EXCEPT !.pc = "upload", !.op = "syncMoodData",
                                  !.entries = list,
                                  !.stats = calculateMoodStats(list),
                                  !.uploads = 1])
       /\ hook' = [hook EXCEPT !.run[p] = "sync", !.base[p] = hook.entries,
                               !.syncing = TRUE, !.error = FALSE,
                               !.calls = @ + 1]
  /\ netCall' = TRUE
  /\ NoTask
  /\ UNCHANGED <<store, remote, service, now, timers, backup, retry, blobs, meta, env>>

\* addEntry, updateEntry or deleteEntry of the last render is called: the
\* list is built from the entries the callback closed over and syncData
\* calls syncMoodData with it
Hook_Mutate(p, id) ==
  /\ PubFree(p)
  /\ hook.run[p] = "none"
  /\ hook.calls < MaxCalls
  /\ \E list \in Mutations(hook.rendered, p) :
       /\ Len(list) > Len(hook.rendered) => \A k \in 1..Len(hook.rendered) : hook.rendered[k].id # id
       /\ SetPub(p, [NoPub EXCEPT !.pc = "upload", !.op = "syncMoodData",
                                  !.entries = list,
                                  !.stats = calculateMoodStats(list),
                                  !.uploads = 1])
       /\ hook' = [hook EXCEPT !.run[p] = "sync", !.base[p] = hook.rendered,
                               !.syncing = TRUE, !.error = FALSE,
                               !.calls = @ + 1]
  /\ netCall' = TRUE
  /\ NoTask
  /\ UNCHANGED <<store, remote, service, now, timers, backup, retry, blobs, meta, env>>

\* syncMoodData has settled and its result is taken: setEntries(newEntries)
\* and refreshConfig(), or the error is set and rethrown
Hook_Synced(p) ==
  /\ hook.run[p] = "sync"
  /\ pub[p].pc = "done"
  /\ IF pub[p].ret.kind = "error"
     THEN /\ hook' = [hook EXCEPT !.run[p] = "none", !.base[p] = <<>>,
                                  !.error = TRUE, !.syncing = FALSE]
          /\ netCall' = FALSE
     ELSE /\ hook' = [hook EXCEPT !.run[p] = "refresh",
                                  !.entries = pub[p].entries, !.error = FALSE]
          /\ netCall' = TRUE
  /\ SetPub(p, NoPub)
  /\ NoTask
  /\ UNCHANGED <<store, remote, service, now, timers, backup, retry, blobs, meta,
                 env>>

\* getHybridConfig() has settled inside refreshConfig: setConfig, setSyncing
Hook_Refreshed(p) ==
  /\ hook.run[p] = "refresh"
  /\ \E ok \in BOOLEAN :
       hook' = [hook EXCEPT !.run[p] = "none", !.base[p] = <<>>,
                            !.syncing = FALSE,
                            !.config = getHybridConfig(ok, meta)]
  /\ netCall' = FALSE
  /\ NoTask
  /\ UNCHANGED <<store, remote, service, now, timers, backup, retry, blobs, meta,
                 env, pub>>

\* the component renders again: the callbacks close over the state entries
Hook_Render ==
  /\ hook.rendered # hook.entries
  /\ hook' = [hook EXCEPT !.rendered = hook.entries]
  /\ netCall' = FALSE
  /\ NoTask
  /\ UNCHANGED <<store, remote, service, now, timers, backup, retry, blobs, meta,
                 env, pub>>

----------------------------------------------------------------------------
(* HybridMoodDataService.getDataSourceInfo *)

\* a report that turns every marker into a date
DataSourceInfo_anyMarker(localCount, hasEdgeConfig, edgeConfigCount, marker) ==
  [kind |-> "info",
   val |-> <<[hasLocalData |-> localCount > 0, hasEdgeConfigData |-> hasEdgeConfig,
              localCount |-> localCount, edgeConfigCount |-> edgeConfigCount,
              lastSyncTime |-> <<marker>>]>>]

\* the object getDataSourceInfo returns; lastSyncTime is a list holding the
\* date, or the empty list for null
DataSourceInfo(localCount, hasEdgeConfig, edgeConfigCount, marker) ==
  [kind |-> "info",
   val |-> <<[hasLocalData |-> localCount > 0, hasEdgeConfigData |-> hasEdgeConfig,
              localCount |-> localCount, edgeConfigCount |-> edgeConfigCount,
              lastSyncTime |-> IF marker > 0 THEN <<marker>> ELSE <<>>]>>]

\* getDataSourceInfo() issues getAllEntries() and hasMoodData()
Info_Call(t) ==
  /\ Free(t)
  /\ SetTask(t, Running("info_wait", "getDataSourceInfo", <<>>, NoLoc, FALSE))
  /\ netCall' = TRUE
  /\ UNCHANGED <<store, remote, service, now, timers, extra>>

\* both answers are in: a rejected local read gives the zeroed report, a
\* rejected has() counts as false, and a true has() starts getMoodEntries()
Info_Both(t) ==
  /\ task[t].pc = "info_wait"
  /\ ~tx.active
  /\ \E okLocal \in BOOLEAN, hasEdgeConfig \in BOOLEAN, okHas \in BOOLEAN :
       LET localCount == Len(DB_getAllEntries(rows))
           log == ~okHas \/ ~okLocal
       IN /\ ~okHas => ~hasEdgeConfig
          /\ IF ~okLocal
             THEN SetTask(t, Finished("getDataSourceInfo", <<>>, "none",
                                      DataSourceInfo(0, FALSE, 0, 0), log))
             ELSE IF hasEdgeConfig
                  THEN SetTask(t, [task[t] EXCEPT !.pc = "info_fetch",
                                                  !.loc.aux = localCount,
                                                  !.log = log])
                  ELSE SetTask(t, Finished("getDataSourceInfo", <<>>, "local",
                                           DataSourceInfo(localCount, FALSE, 0,
                                                          lastSyncTime), log))
  /\ netCall' = FALSE
  /\ UNCHANGED <<store, remote, service, now, timers, extra>>

\* getMoodEntries() answers and the report is built from the marker as it is
Info_Fetch(t) ==
  /\ task[t].pc = "info_fetch"
  /\ \E ok \in BOOLEAN :
       SetTask(t, Finished("getDataSourceInfo", <<>>, "fetch",
                           DataSourceInfo(task[t].loc.aux, TRUE,
                                          Len(EC_getMoodEntries(ok, remote)),
                                          lastSyncTime),
                           task[t].log \/ ~ok))
  /\ netCall' = FALSE
  /\ UNCHANGED <<store, remote, service, now, timers, extra>>

----------------------------------------------------------------------------
(* migrateMockData, run by the effect of the page                           *)

\* the three sample entries; the comments are shortened
mockEntries ==
  <<MkEntry(20250901, [dose |-> 100, clonazepamDrops |-> 2, mood |-> 4,
                       comment |-> <<"D", "i", "a">>]),
    MkEntry(20250902, [dose |-> 50, clonazepamDrops |-> 1, mood |-> 3,
                       comment |-> <<"A">>]),
    MkEntry(20250903, [dose |-> 150, clonazepamDrops |-> 3, mood |-> 2,
                       comment |-> <<"D", "i", "a">>])>>

Bool(b) == [kind |-> "bool", val |-> <<b>>]

\* migrateMockData() is called and asks for the rows of the table
Mig_Call(t) ==
  /\ Free(t)
  /\ SetTask(t, Running("mig_read", "migrateMockData", <<>>, NoLoc, FALSE))
  /\ netCall' = FALSE
  /\ UNCHANGED <<store, remote, service, now, timers, extra>>

\* getAllEntries() answers: over an empty table the first saveEntry begins,
\* otherwise the migration is skipped; a rejection is logged and rethrown
Mig_Read(t) ==
  /\ task[t].pc = "mig_read"
  /\ ~tx.active
  /\ \E ok \in BOOLEAN :
       IF ~ok
       THEN SetTask(t, Finished("migrateMockData", <<>>, "none", Error, TRUE))
       ELSE IF Len(DB_getAllEntries(rows)) = 0
            THEN SetTask(t, [task[t] EXCEPT !.pc = "mig_lookup",
                                            !.loc.list = mockEntries])
            ELSE SetTask(t, Finished("migrateMockData", <<>>, "local",
                                     Bool(FALSE), FALSE))
  /\ netCall' = FALSE
  /\ UNCHANGED <<store, remote, service, now, timers, extra>>

\* saveEntry(entry), first request: where('date').equals(entry.date).first()
Mig_Lookup(t) ==
  /\ task[t].pc = "mig_lookup"
  /\ ~tx.active
  /\ \E ok \in BOOLEAN :
       IF ~ok
       THEN SetTask(t, Finished("migrateMockData", <<>>, "none", Error, TRUE))
       ELSE LET existingEntry == DB_getEntryByDate(rows, Head(task[t].loc.list).date)
            IN  SetTask(t, [task[t] EXCEPT
                              !.pc = "mig_write",
                              !.loc.aux = IF existingEntry = <<>> THEN NoId
                                          ELSE existingEntry[1].id])
  /\ netCall' = FALSE
  /\ UNCHANGED <<store, remote, service, now, timers, extra>>

\* saveEntry(entry), second request: update(existingEntry.id, entry) or
\* add(entry); then the next entry, or the return of true
Mig_Write(t) ==
  /\ task[t].pc = "mig_write"
  /\ ~tx.active
  /\ LET entry == Head(task[t].loc.list)
         rest == Tail(task[t].loc.list)
         id == task[t].loc.aux
         after == IF rest = <<>>
                  THEN Finished("migrateMockData", <<>>, "local", Bool(TRUE), FALSE)
                  ELSE [task[t] EXCEPT !.pc = "mig_lookup", !.loc.list = rest,
                                       !.loc.aux = NoId]
     IN \E ok \in BOOLEAN :
          IF ~ok
          THEN /\ SetTask(t, Finished("migrateMockData", <<>>, "none", Error, TRUE))
               /\ UNCHANGED <<rows, nextId>>
          ELSE IF id # NoId
               THEN /\ rows' = IF id \in DOMAIN rows
                               THEN [rows EXCEPT ![id] = Merge(rows[id], entry)]
                               ELSE rows
                    /\ UNCHANGED nextId
                    /\ SetTask(t, after)
               ELSE /\ nextId <= MaxId + Len(mockEntries)
                    /\ rows' = bulkAdd(rows, <<entry>>, nextId)
                    /\ nextId' = nextId + 1
                    /\ SetTask(t, after)
  /\ netCall' = FALSE
  /\ UNCHANGED <<tx, remote, service, now, timers, extra>>

----------------------------------------------------------------------------
(* The environment *)

\* time passes
Tick ==
  /\ now + TickStep <= StartTime + MaxTicks * TickStep
  /\ now' = now + TickStep
  /\ netCall' = FALSE
  /\ NoTask
  /\ UNCHANGED <<store, remote, service, timers, extra>>

\* the operator publishes another list under mood_entries
RemoteUpdate(list) ==
  /\ list # remote
  /\ remote' = list
  /\ netCall' = FALSE
  /\ NoTask
  /\ UNCHANGED <<store, service, now, timers, extra>>

Next ==
  \/ \E p \in Publishers, b \in RouteBodies : Route_Post(p, b)
  \/ \E p \in Publishers : Route_Respond(p)
  \/ \E p \in Publishers : Hook_Mutate(p, randomUUID(p))
  \/ \E p \in Publishers : Hook_Synced(p)
  \/ \E p \in Publishers : Hook_Refreshed(p)
  \/ Hook_Render
  \/ \E t \in Tasks : Info_Call(t)
  \/ \E t \in Tasks : Info_Both(t)
  \/ \E t \in Tasks : Info_Fetch(t)
  \/ \E t \in Tasks : Mig_Call(t)
  \/ \E t \in Tasks : Mig_Read(t)
  \/ \E t \in Tasks : Mig_Lookup(t)
  \/ \E t \in Tasks : Mig_Write(t)
  \/ \E p \in Publishers, l \in PubLists :
       Pub_Config(p, EntriesUrl, calculateMoodStats(l))
  \/ \E p \in Publishers, op \in {"syncMoodData", "updateMoodEntries"},
        l \in PubLists : Pub_Upload(p, op, l)
  \/ \E p \in Publishers : Pub_UploadEnds(p)
  \/ \E p \in Publishers : Pub_PatchEnds(p)
  \/ \E e \in Envs : Deploy(e)
  \/ \E op \in RetryOps : Retry_Call(op)
  \/ Retry_OpEnds
  \/ Retry_DelayEnds
  \/ \E t \in Tasks : ExportFile(t)
  \/ \E t \in Tasks :
       \E op \in {"EC.getMoodEntries", "EC.getValidatedMoodEntries", "EC.getMoodStats"} :
         EC_Call(t, op)
  \/ \E t \in Tasks : EC_Fetch(t)
  \/ \E t \in Tasks : RestoreBackup(t)
  \/ \E t \in Tasks : GetAll_LocalFail(t)
  \/ \E t \in Tasks : GetAll_LocalHit(t)
  \/ \E t \in Tasks : GetAll_LocalMiss(t)
  \/ \E t \in Tasks : GetAll_Fetch(t)
  \/ \E t \in Tasks, q \in QueryCalls : Query_Local(t, q[1], q[2])
  \/ \E t \in Tasks : Query_Fetch(t)
  \/ \E t \in Tasks, e \in InputEntries : Save_Lookup(t, e)
  \/ \E t \in Tasks : Save_Write(t)
  \/ \E t \in Tasks, i \in 1..MaxId, u \in Updates : Update(t, i, u)
  \/ \E t \in Tasks, i \in 1..MaxId : Delete(t, i)
  \/ \E t \in Tasks : ClearAll(t)
  \/ \E t \in Tasks, f \in BackupFiles : ImportFile(t, f)
  \/ \E t \in Tasks : ImpClear(t)
  \/ \E t \in Tasks : ImpAdd(t)
  \/ \E t \in Tasks : ImpEnd(t)
  \/ \E t \in Tasks : TimerFire(t)
  \/ \E t \in Tasks : ForceSync(t)
  \/ \E t \in Tasks : Sync_Local(t)
  \/ \E t \in Tasks : Sync_Fetch(t)
  \/ ClearCaches
  \/ Tick
  \/ \E l \in RemoteLists : RemoteUpdate(l)

\* the whole service; the specifications below run its parts on their own
Spec == Init /\ [][Next]_vars


----------------------------------------------------------------------------
(* The read path on its own: queries, their imports, the background sync *)

NextRead ==
  \/ GetAll_LocalFail(1)
  \/ GetAll_LocalHit(1)
  \/ GetAll_LocalMiss(1)
  \/ GetAll_Fetch(1)
  \/ \E q \in QueryCalls : Query_Local(1, q[1], q[2])
  \/ Query_Fetch(1)
  \/ \E t \in Tasks : ImpClear(t)
  \/ \E t \in Tasks : ImpAdd(t)
  \/ \E t \in Tasks : ImpEnd(t)
  \/ TimerFire(2)
  \/ Sync_Local(2)
  \/ Sync_Fetch(2)
  \/ Tick
  \/ \E l \in RemoteLists : RemoteUpdate(l)

SpecRead == Init /\ [][NextRead]_vars


----------------------------------------------------------------------------
(* Properties of the read path *)

FiveQueries == {q[1] : q \in QueryCalls}
ReadOps == FiveQueries \cup {"getAllEntries"}

\* task t takes the step: it starts a call or resumes the one in flight
Acts(t) ==
  \/ Free(t) /\ task'[t].pc # "idle"
  \/ ~Free(t) /\ task'[t] # task[t]

\* task t has just returned from a call of op
Returned(t, op) == task[t].pc = "done" /\ task[t].op = op

\* the fields of the rows of a list, as a set
Fields(list) == {StripId(list[k]) : k \in 1..Len(list)}

\* the table holds the entries of the list, one row each
HoldsExactly(r, list) ==
  /\ Len(DB_getAllEntries(r)) = Len(list)
  /\ Fields(DB_getAllEntries(r)) = Fields(list)

\* a result that is the empty list, no entry, or the zeroed statistics
EmptyResult(ret) ==
  \/ ret.kind \in {"list", "entry"} /\ ret.val = <<>>
  \/ ret.kind = "stats" /\ ret.val[1].totalEntries = 0

\* C1: a getAllEntries call made while the table is non-empty, whose local
\* read succeeds, returns at once exactly the rows of the table in date order,
\* issues no request and leaves the table alone, whatever the remote holds.
C1_ReadPrecedence ==
  [][\A t \in Tasks :
       (/\ Acts(t) /\ Free(t)
        /\ task'[t].op = "getAllEntries"
        /\ DOMAIN rows # {}
        /\ ~task'[t].log)
       => /\ task'[t].pc = "done"
          /\ task'[t].ret = ListOf(DB_getAllEntries(rows))
          /\ ~netCall'
          /\ rows' = rows]_vars

\* one local row is returned although the remote holds three
C1_Witness ==
  \E t \in Tasks :
    /\ Returned(t, "getAllEntries")
    /\ task[t].loc.src = "local"
    /\ Len(task[t].ret.val) = 1
    /\ Len(remote) = 3

\* C2: with the table empty, a fetch that succeeds hands getAllEntries the
\* remote list, and a getAllEntries that returns a non-empty list from the
\* remote side without a logged failure returns the list it read while the
\* table holds exactly that list, one row per entry.
C2_FallbackImports ==
  [][\A t \in Tasks :
       /\ (/\ Acts(t)
            /\ task[t].pc = "ga_fetch"
            /\ ~task'[t].log
            /\ Len(remote) > 0)
          => (task'[t].pc # "done" /\ task'[t].loc.list = remote)
       /\ (/\ Acts(t)
            /\ task'[t].pc = "done"
            /\ task'[t].op = "getAllEntries"
            /\ task'[t].loc.src \in {"fetch", "cache"}
            /\ ~task'[t].log
            /\ task'[t].ret.val # <<>>)
          => /\ ~Free(t)
             /\ task'[t].ret = ListOf(task[t].loc.list)
             /\ HoldsExactly(rows', task'[t].ret.val)]_vars

\* the three remote entries were returned and the table holds three rows
C2_Witness ==
  \E t \in Tasks :
    /\ Returned(t, "getAllEntries")
    /\ task[t].loc.src = "fetch"
    /\ ~task[t].log
    /\ task[t].ret.val = remote
    /\ Len(remote) = 3
    /\ Len(DB_getAllEntries(rows)) = 3

\* C3 as the specification states it: every query that answers from the
\* remote side with a non-empty result has read through the cache and has
\* imported the remote list into the table before it returns.
C3_AsStated ==
  \A t \in Tasks :
    (/\ task[t].pc = "done"
     /\ task[t].op \in ReadOps
     /\ task[t].loc.src \in {"fetch", "cache"}
     /\ ~task[t].log
     /\ ~EmptyResult(task[t].ret))
    => /\ cachedEdgeConfigData.has
       /\ Len(DB_getAllEntries(rows)) > 0

\* C3: only getAllEntries reads through the cache and imports.  With a valid
\* cache it answers an empty table from the cache without a request, and its
\* fetch stores what it read in the cache.  The five other queries always
\* fetch when the local answer is empty, and none of their steps changes the
\* table, the key generator, the cache or the cache timestamp.
C3_OnlyGetAllImports ==
  [][\A t \in Tasks :
       /\ (Acts(t) /\ task'[t].op \in FiveQueries)
          => /\ UNCHANGED <<rows, nextId, tx, cachedEdgeConfigData, cacheTimestamp>>
             /\ (task'[t].pc = "q_fetch" <=> netCall')
             /\ task'[t].pc \in {"q_fetch", "done"}
       /\ (/\ Acts(t) /\ Free(t)
            /\ task'[t].op = "getAllEntries"
            /\ DOMAIN rows = {}
            /\ ~task'[t].log
            /\ cachedEdgeConfigData.has
            /\ now - cacheTimestamp < CACHE_EXPIRY)
          => /\ ~netCall'
             /\ \/ task'[t].loc.list = cachedEdgeConfigData.data
                \/ task'[t].ret = ListOf(<<>>) /\ cachedEdgeConfigData.data = <<>>
       /\ (Acts(t) /\ task[t].pc = "ga_fetch")
          => /\ cachedEdgeConfigData'.has
             /\ cacheTimestamp' = task[t].loc.t0
             /\ \/ task'[t].loc.list = cachedEdgeConfigData'.data
                \/ task'[t].ret = ListOf(<<>>) /\ cachedEdgeConfigData'.data = <<>>]_vars

\* a query other than getAllEntries answered from the remote while the table
\* stayed empty and the cache stayed unset
C3_Witness ==
  \E t \in Tasks :
    /\ task[t].pc = "done"
    /\ task[t].op \in FiveQueries
    /\ task[t].loc.src = "fetch"
    /\ ~EmptyResult(task[t].ret)
    /\ DOMAIN rows = {}
    /\ ~cachedEdgeConfigData.has

\* C4 as the specification states it: no read returns an error, and a read
\* during which a failure was logged returns an empty, absent or zeroed result.
C4_AsStated ==
  \A t \in Tasks :
    task[t].op \in ReadOps
    => /\ task[t].ret.kind # "error"
       /\ (task[t].pc = "done" /\ task[t].log) => EmptyResult(task[t].ret)

\* C4: no read returns an error.  A read during which a failure was logged
\* returns an empty, absent or zeroed result, except getAllEntries after a
\* failed import, which still returns the remote list it read.
C4_ReadsNeverThrow ==
  \A t \in Tasks :
    task[t].op \in ReadOps
    => /\ task[t].ret.kind # "error"
       /\ (task[t].pc = "done" /\ task[t].log)
          => \/ EmptyResult(task[t].ret)
             \/ /\ task[t].op = "getAllEntries"
                /\ task[t].loc.src \in {"fetch", "cache"}

\* getStats returned the zeroed statistics after its local read failed
C4_Witness ==
  \E t \in Tasks :
    /\ Returned(t, "getStats")
    /\ task[t].log
    /\ task[t].ret.val[1].dataSource = "error"


----------------------------------------------------------------------------
(* The write path on its own: two callers over a fresh table *)

NextWrite ==
  \/ \E t \in Tasks, e \in InputEntries : Save_Lookup(t, e)
  \/ \E t \in Tasks : Save_Write(t)
  \/ \E t \in Tasks, i \in 1..MaxId, u \in Updates : Update(t, i, u)
  \/ \E t \in Tasks, i \in 1..MaxId : Delete(t, i)
  \/ \E t \in Tasks : ClearAll(t)

SpecWrite == InitEmpty /\ [][NextWrite]_vars

\* the same calls made one after the other by a single caller
NextSeq ==
  \/ \E e \in InputEntries : Save_Lookup(1, e)
  \/ Save_Write(1)
  \/ \E i \in 1..MaxId, u \in Updates : Update(1, i, u)
  \/ \E i \in 1..MaxId : Delete(1, i)
  \/ ClearAll(1)

SpecSeq == InitEmpty /\ [][NextSeq]_vars

----------------------------------------------------------------------------
(* Imports: a backup file restored by one caller while another caller saves, *)
(* clears, queries and reads through the service                             *)

NextImport ==
  \/ \E f \in BackupFiles : ImportFile(1, f)
  \/ \E t \in Tasks : ImpClear(t)
  \/ \E t \in Tasks : ImpAdd(t)
  \/ \E t \in Tasks : ImpEnd(t)
  \/ \E e \in InputEntries : Save_Lookup(2, e)
  \/ Save_Write(2)
  \/ ClearAll(2)
  \/ \E q \in QueryCalls : Query_Local(2, q[1], q[2])
  \/ Query_Fetch(2)
  \/ GetAll_LocalHit(2)
  \/ GetAll_LocalMiss(2)
  \/ GetAll_Fetch(2)

SpecImport == InitPublished /\ [][NextImport]_vars


----------------------------------------------------------------------------
(* Properties of the write path and of the imports *)

WriteOps == {"saveEntry", "updateEntry", "deleteEntry"}

\* the primary keys of the rows that carry the date
KeysOfDate(r, date) == {i \in DOMAIN r : r[i].date = date}

\* every row but the one under id is the same in both tables
SameElsewhere(r, q, id) ==
  \A i \in (DOMAIN r \cup DOMAIN q) \ {id} :
    i \in DOMAIN r /\ i \in DOMAIN q /\ r[i] = q[i]

\* C5: after any sequence of saves, updates, deletes and clears, whether
\* they succeed or fail, the remote value, the cache, the cache timestamp and
\* the last-sync marker are what they were when the page was loaded, no sync
\* is scheduled, and the step just taken issued no network request.
C5_WritesStayLocal ==
  /\ remote = <<RemoteA, RemoteB>>
  /\ cachedEdgeConfigData = NullCache
  /\ cacheTimestamp = 0
  /\ lastSyncTime = 0
  /\ timers = 0
  /\ ~netCall

\* a delete has returned after a save and an update changed the table
C5_Witness ==
  \E t \in Tasks :
    /\ Returned(t, "deleteEntry")
    /\ ~task[t].log
    /\ 2 \in DOMAIN rows
    /\ rows[2].date = 20250902
    /\ 1 \notin DOMAIN rows

\* C6: a save, update or delete during which the table failed returns the
\* error to its caller.
C6_WriteErrorsPropagate ==
  \A t \in Tasks :
    (task[t].pc = "done" /\ task[t].op \in WriteOps /\ task[t].log)
    => task[t].ret = Error

\* an update of a stored row failed and the caller got the error
C6_Witness ==
  \E t \in Tasks :
    /\ Returned(t, "updateEntry")
    /\ task[t].log
    /\ task[t].ret = Error
    /\ task[t].arg[1] \in DOMAIN rows

\* C7: no two rows of the table carry the same date.
C7_OnePerDate ==
  \A i, j \in DOMAIN rows : i # j => rows[i].date # rows[j].date

\* C8: a save made with no other call in flight, when no row carries its
\* date, adds one row under a new id, holding the entry, and returns that
\* id; when one row carries its date, it leaves the set of ids as it is, puts
\* the entry's fields in that row and returns that row's id.  No other row
\* changes either way.
C8_SaveUpserts ==
  [][\A t \in Tasks :
       (/\ task[t].pc = "save_write"
        /\ task'[t].pc = "done"
        /\ ~task'[t].log)
       => LET e == task'[t].arg
              same == KeysOfDate(rows, e.date)
              id == task'[t].ret.val[1]
          IN /\ task'[t].ret.kind = "id"
             /\ same = {}
                => /\ id \notin DOMAIN rows
                   /\ DOMAIN rows' = DOMAIN rows \cup {id}
             /\ Cardinality(same) = 1
                => /\ id \in same
                   /\ DOMAIN rows' = DOMAIN rows
             /\ Cardinality(same) <= 1
                => /\ rows'[id] = e
                   /\ KeysOfDate(rows', e.date) = {id}
                   /\ SameElsewhere(rows, rows', id)]_vars

\* the second save of a date returned the id of the only row, which now
\* holds the second entry's fields
C8_Witness ==
  \E t \in Tasks :
    /\ Returned(t, "saveEntry")
    /\ task[t].loc.src = "update"
    /\ task[t].arg = MkEntry(20250901, PayloadB)
    /\ task[t].ret.val = <<1>>
    /\ DOMAIN rows = {1}
    /\ rows[1] = MkEntry(20250901, PayloadB)

\* C9: while importData runs, the table other calls read stays the one found
\* at its start; when it ends the table is either unchanged or holds exactly
\* the imported list, and it is unchanged when the import failed.
C9_ImportAtomic ==
  [][\A t \in Tasks :
       /\ tx.active => rows = tx.pre
       /\ (Acts(t) /\ task'[t].pc \in {"imp_add", "imp_end"}) => rows' = rows
       /\ (Acts(t) /\ task[t].pc = "imp_end")
          => /\ \/ rows' = rows
                \/ HoldsExactly(rows', task[t].loc.list)
             /\ (task'[t].log /\ ~task[t].log) => rows' = rows]_vars

\* bulkAdd has failed part-way: the transaction holds a partly filled table
\* while the stored rows are still there
C9_Witness ==
  \E t \in Tasks :
    /\ task[t].pc = "imp_end"
    /\ ~task[t].loc.have
    /\ tx.active
    /\ Cardinality(DOMAIN tx.work) = 1
    /\ DOMAIN rows # {}
    /\ DOMAIN rows \cap DOMAIN tx.work = {}

\* C10: an import that succeeds leaves as many rows as the list has
\* elements, whatever ids the elements carry, all of them under keys the
\* table has never used.
C10_ImportCount ==
  [][\A t \in Tasks :
       (/\ Acts(t)
        /\ task[t].pc = "imp_end"
        /\ ~(task'[t].log /\ ~task[t].log))
       => /\ Len(DB_getAllEntries(rows')) = Len(task[t].loc.list)
          /\ \A i \in DOMAIN rows' : i >= nextId /\ i < nextId']_vars

\* a backup of two entries that carry the same id was restored over a table
\* that had used that id: two rows, neither under it
C10_Witness ==
  \E t \in Tasks :
    /\ Returned(t, "importMoodData")
    /\ task[t].ret = [kind |-> "count", val |-> <<2>>]
    /\ Len(DB_getAllEntries(rows)) = 2
    /\ 1 \notin DOMAIN rows
    /\ \E i \in DOMAIN rows : rows[i] = StripId(RemoteA)

----------------------------------------------------------------------------
(* Backup and restore: one user saves, edits and clears entries, downloads a *)
(* backup and restores it                                                    *)

NextBackup ==
  \/ \E e \in InputEntries : Save_Lookup(1, e)
  \/ Save_Write(1)
  \/ \E i \in 1..MaxId, u \in Updates : Update(1, i, u)
  \/ ClearAll(1)
  \/ ExportFile(1)
  \/ RestoreBackup(1)
  \/ ImpClear(1)
  \/ ImpAdd(1)
  \/ ImpEnd(1)

SpecBackup == InitPublished /\ [][NextBackup]_vars

\* the entries of a list without their ids, in the order of the list
StripSeq(list) == [k \in 1..Len(list) |-> StripId(list[k])]

\* the import of the downloaded backup ends with this step of task t
RestoreEnds(t) ==
  /\ Acts(t)
  /\ task[t].pc = "imp_end"
  /\ task[t].op = "importMoodData"
  /\ task'[t].ret.kind = "count"
  /\ backup.has
  /\ task[t].arg = ParsedBackup

\* C11: an export that succeeds writes every row of the table to the backup,
\* with its date, dose, drops, mood and comment, and changes nothing; an import
\* of that backup that succeeds leaves the table with exactly the entries of
\* the backup, as many rows as the backup has elements and in the same order,
\* under keys the generator assigned anew; so when the table held the exported
\* entries before the import it holds the same entries after it.
C11_BackupRoundTrip ==
  [][\A t \in Tasks :
       /\ (Acts(t) /\ task'[t].op = "exportMoodData" /\ task'[t].ret = Void)
            => /\ backup'.has
               /\ StripSeq(backup'.data) = StripSeq(toArray(rows))
               /\ store' = store
       /\ RestoreEnds(t)
            => /\ StripSeq(toArray(rows')) = StripSeq(backup.data)
               /\ Len(DB_getAllEntries(rows')) = Len(backup.data)
               /\ task'[t].ret.val = <<Len(backup.data)>>
               /\ Fields(DB_getAllEntries(rows')) = Fields(backup.data)
               /\ StripSeq(toArray(tx.pre)) = StripSeq(backup.data)
                    => StripSeq(toArray(rows')) = StripSeq(toArray(tx.pre))]_vars

\* a backup of two rows was restored, and the restored rows have other keys
\* than the exported ones
C11_Witness ==
  /\ Returned(1, "importMoodData")
  /\ task[1].ret.kind = "count"
  /\ backup.has
  /\ task[1].arg = ParsedBackup
  /\ Len(backup.data) = 2
  /\ StripSeq(toArray(rows)) = StripSeq(backup.data)
  /\ \A k \in 1..Len(backup.data) : backup.data[k].id \notin DOMAIN rows

----------------------------------------------------------------------------
(* Properties of the validation of a backup file *)

\* the file is not a list, or an element of it has no date, no dose key or no
\* mood key
Malformed(file) ==
  \/ ~file.isArray
  \/ \E k \in 1..Len(file.data) :
       \/ "date" \notin DOMAIN file.data[k]
       \/ "dose" \notin DOMAIN file.data[k]
       \/ "mood" \notin DOMAIN file.data[k]

\* C12: importMoodData called with a file that is not a list, or with a list
\* of which an element lacks the date, the dose key or the mood key, fails at
\* once with an error that is logged, and the table, its key generator and
\* its transaction are as they were before the call.
C12_ImportValidates ==
  [][\A t \in Tasks, f \in BackupFiles :
       (Free(t) /\ Acts(t) /\ task'[t].op = "importMoodData"
          /\ task'[t].arg = f /\ Malformed(f))
         => /\ task'[t].pc = "done"
            /\ task'[t].ret = Error
            /\ task'[t].log
            /\ store' = store]_vars

\* a list with an element that lacks a key was rejected while the table held
\* a row, and the row is still there
C12_Witness ==
  /\ Returned(1, "importMoodData")
  /\ task[1].arg.isArray
  /\ Malformed(task[1].arg)
  /\ task[1].ret = Error
  /\ rows # EmptyTable

----------------------------------------------------------------------------
(* Synchronisation on its own: one caller reads through the service, forces *)
(* a sync or clears the caches; the timer's sync body runs between its calls *)

NextSync ==
  \/ GetAll_LocalFail(1)
  \/ GetAll_LocalHit(1)
  \/ GetAll_LocalMiss(1)
  \/ GetAll_Fetch(1)
  \/ TimerFire(1)
  \/ ForceSync(1)
  \/ Sync_Local(1)
  \/ Sync_Fetch(1)
  \/ ImpClear(1)
  \/ ImpAdd(1)
  \/ ImpEnd(1)
  \/ Free(1) /\ ClearCaches
  \/ Tick
  \/ \E l \in RemoteLists : RemoteUpdate(l)

SpecSync == Init /\ [][NextSync]_vars

----------------------------------------------------------------------------
(* Properties of the background synchronisation and of the cache *)

\* task t starts a call of op with this step
Starts(t, op) == Free(t) /\ Acts(t) /\ task'[t].op = op

\* C13: while nothing resets the marker, a run of the sync body is scheduled
\* only by a step taken when at least SYNC_INTERVAL has passed since the
\* previous run was scheduled, and that step schedules one run and sets the
\* marker to the present; a getAllEntries call that finds rows within the
\* interval schedules nothing, whether the run scheduled before has started or
\* not; and the body starts only by taking one scheduled run.
C13_SyncThrottle ==
  [][/\ (timers' > timers \/ lastSyncTime' # lastSyncTime)
          => /\ now - lastSyncTime >= SYNC_INTERVAL
             /\ timers' = timers + 1
             /\ lastSyncTime' = now
     /\ \A t \in Tasks :
          /\ (Starts(t, "getAllEntries") /\ now - lastSyncTime < SYNC_INTERVAL)
               => (timers' = timers /\ lastSyncTime' = lastSyncTime)
          /\ Starts(t, "backgroundSync")
               => (timers > 0 /\ timers' = timers - 1)]_vars

\* the scheduled run has started and a getAllEntries call that found rows has
\* returned within the interval without scheduling another run
C13_Witness ==
  /\ Returned(1, "getAllEntries")
  /\ task[1].loc.src = "local"
  /\ task[2].op = "backgroundSync"
  /\ task[2].pc # "done"
  /\ lastSyncTime = now
  /\ timers = 0

SyncOps == {"backgroundSync", "forceSync"}

\* C14: when the sync body runs with nothing interleaved, it starts an import
\* only if the remote list it obtained is longer than the list of rows; when
\* that import has ended without an error the table holds exactly the entries
\* of that remote list in place of its former rows; and when the remote list
\* is as long as the list of rows or shorter the body ends and the table and
\* its key generator are as they were.
C14_SyncBody ==
  [][\A t \in Tasks :
       (Acts(t) /\ task[t].op \in SyncOps) =>
         /\ (task[t].pc = "sync_wait" /\ task'[t].pc = "imp_clear")
              => /\ Len(cachedEdgeConfigData'.data) > Len(DB_getAllEntries(rows))
                 /\ task'[t].loc.list = cachedEdgeConfigData'.data
         /\ (task[t].pc = "imp_end" /\ task'[t].pc = "done" /\ ~task'[t].log)
              => /\ HoldsExactly(rows', cachedEdgeConfigData.data)
                 /\ Len(cachedEdgeConfigData.data) > Len(DB_getAllEntries(tx.pre))
                 /\ DOMAIN rows' \cap DOMAIN tx.pre = {}
         /\ (task[t].pc = "sync_wait" /\ task'[t].pc = "done")
              => /\ <<rows, nextId>>' = <<rows, nextId>>
                 /\ ~task'[t].log
                      => Len(cachedEdgeConfigData'.data) <= Len(DB_getAllEntries(rows))]_vars

\* a sync body has replaced a row by the three entries of a longer remote list
C14_Witness ==
  /\ \E t \in Tasks : task[t].pc = "done" /\ task[t].op \in SyncOps /\ ~task[t].log
  /\ cachedEdgeConfigData.has
  /\ Len(cachedEdgeConfigData.data) = 3
  /\ HoldsExactly(rows, cachedEdgeConfigData.data)
  /\ nextId = 5

\* C15: a forceSync call during which the local read, the remote fetch or the
\* import failed ends with an error for its caller.
C15_AsStated ==
  \A t \in Tasks :
    (Returned(t, "forceSync") /\ task[t].log) => task[t].ret = Error

\* task t calls getCachedEdgeConfigData() with this step: a getAllEntries call
\* that finds no rows, or the sync body started by the timer
CachedRead(t) ==
  /\ Free(t)
  /\ Acts(t)
  /\ task'[t].op \in {"getAllEntries", "backgroundSync"}
  /\ task'[t].loc.src \in {"cache", "fetch"}

AfterForceSync == \E u \in Tasks : Returned(u, "forceSync")

FetchEnds(t) ==
  /\ Acts(t)
  /\ \/ task[t].pc = "ga_fetch"
     \/ /\ task[t].pc \in {"sync_wait", "sync_orphan"}
        /\ ~task[t].loc.have
        /\ task'[t].pc \in {"done", "imp_clear"} \/ task'[t].loc.have

\* C17: while nothing resets the cache, a cached remote read made less than
\* CACHE_EXPIRY after the read that fetched the cached list takes that list,
\* issues no request and leaves the list and its timestamp alone; a read made
\* at or after expiry, or with nothing cached, issues a request, and when its
\* fetch completes the cache holds what it fetched and the timestamp is the
\* time that read was made; nothing else changes the cache.
C17_CacheReuse ==
  [][/\ \A t \in Tasks :
          /\ CachedRead(t) =>
               IF cachedEdgeConfigData.has /\ now - cacheTimestamp < CACHE_EXPIRY
               THEN /\ ~netCall'
                    /\ task'[t].loc.list = cachedEdgeConfigData.data
                    /\ <<cachedEdgeConfigData, cacheTimestamp>>'
                         = <<cachedEdgeConfigData, cacheTimestamp>>
               ELSE /\ netCall'
                    /\ task'[t].pc \in {"ga_fetch", "sync_wait"}
                    /\ task'[t].loc.t0 = now
          /\ FetchEnds(t) =>
               /\ cachedEdgeConfigData'.has
               /\ cachedEdgeConfigData'.data \in {remote, <<>>}
               /\ cacheTimestamp' = task[t].loc.t0
     /\ <<cachedEdgeConfigData, cacheTimestamp>>' # <<cachedEdgeConfigData, cacheTimestamp>>
          => \E t \in Tasks : FetchEnds(t)]_vars

\* a getAllEntries call was answered from a list cached earlier and not yet
\* expired, while the remote holds another list
C17_Witness ==
  /\ task[1].op = "getAllEntries"
  /\ task[1].loc.src = "cache"
  /\ cacheTimestamp < now
  /\ now - cacheTimestamp < CACHE_EXPIRY
  /\ cachedEdgeConfigData.data # <<>>
  /\ remote # cachedEdgeConfigData.data

\* C18: when the fetch of a cached remote read fails while a list is cached,
\* the read takes the cached list and the cache keeps it.
C18_AsStated ==
  [][\A t \in Tasks :
       (FetchEnds(t) /\ task'[t].log /\ ~task[t].log
          /\ cachedEdgeConfigData.has /\ cachedEdgeConfigData.data # <<>>)
         => /\ cachedEdgeConfigData' = cachedEdgeConfigData
            /\ task'[t].op = "getAllEntries"
                 => \/ task'[t].loc.list = cachedEdgeConfigData.data
                    \/ task'[t].ret = ListOf(cachedEdgeConfigData.data)]_vars

----------------------------------------------------------------------------
(* The retry helper on its own, while the operator publishes lists *)

NextRetry ==
  \/ \E op \in RetryOps : Retry_Call(op)
  \/ Retry_OpEnds
  \/ Retry_DelayEnds
  \/ \E l \in RemoteLists : RemoteUpdate(l)

SpecRetry == Init /\ [][NextRetry]_vars

RetryDone == retry.pc = "done"

\* C19 as stated: the operation is invoked at most 3 times, and exactly 3
\* times when every attempt fails.
C19_AsStated ==
  /\ retry.calls <= 3
  /\ (RetryDone /\ retry.ret = Error) => retry.calls = 3

\* C19: the helper invokes the operation at most 1 + MAX_RETRIES times; it
\* stops at the first attempt that succeeds and returns its value, so two
\* failures and a success are exactly 3 invocations; and when it ends with an
\* error the operation was invoked exactly 1 + MAX_RETRIES times and failed
\* every time.
C19_RetryBound ==
  /\ retry.calls <= 1 + MAX_RETRIES
  /\ retry.fails <= retry.calls
  /\ retry.pc = "wait_op" => retry.calls = retry.fails + 1
  /\ retry.pc = "delay" => retry.calls = retry.fails
  /\ (RetryDone /\ retry.ret # Error)
       => /\ retry.calls = retry.fails + 1
          /\ retry.ret.kind = "list"
          /\ retry.fails = 2 => retry.calls = 3
  /\ (RetryDone /\ retry.ret = Error)
       => /\ retry.calls = 1 + MAX_RETRIES
          /\ retry.fails = retry.calls

\* the operation failed on every attempt and the helper ended with the error
C19_Witness ==
  /\ RetryDone
  /\ retry.op = "get"
  /\ retry.ret = Error
  /\ retry.fails = 4

\* C20: a call of getMoodEntriesWithRetry during which a request failed has
\* made another attempt, and returns the empty list for that failure only
\* when it has used all its attempts.
C20_AsStated ==
  (RetryDone /\ retry.op = "getMoodEntries" /\ retry.log)
    => /\ retry.calls > 1
       /\ retry.ret = ListOf(<<>>) => retry.calls = 1 + MAX_RETRIES

----------------------------------------------------------------------------
(* Data from outside: the remote holds unchecked lists, and a caller reads   *)
(* through the service on an empty table or restores an unchecked backup     *)

NextRaw ==
  \/ GetAll_LocalHit(1)
  \/ GetAll_LocalMiss(1)
  \/ GetAll_Fetch(1)
  \/ \E f \in RawFiles : ImportFile(1, f)
  \/ ImpClear(1)
  \/ ImpAdd(1)
  \/ ImpEnd(1)
  \/ ClearAll(1)
  \/ \E l \in RemoteLists \cup RawLists : RemoteUpdate(l)

SpecRaw == Init /\ [][NextRaw]_vars

\* C21: every row of the table has a mood from 1 to 5 and a dose of 0, 50,
\* 100 or 150.
C21_AsStated ==
  \A i \in DOMAIN rows :
    /\ rows[i].mood \in 1..5
    /\ rows[i].dose \in {0, 50, 100, 150}

----------------------------------------------------------------------------
(* The two accessors of the remote list, over lists of every shape *)

NextAccess ==
  \/ \E op \in {"EC.getMoodEntries", "EC.getValidatedMoodEntries"} : EC_Call(1, op)
  \/ EC_Fetch(1)
  \/ \E l \in RemoteLists \cup RawLists \cup ShapeLists : RemoteUpdate(l)

SpecAccess == Init /\ [][NextAccess]_vars

\* the shape constraints: all five fields, a mood from 1 to 5, a dose of 0, 50,
\* 100 or 150
WellShaped(e) ==
  /\ {"date", "mood", "dose", "clonazepamDrops", "comment"} \subseteq DOMAIN e
  /\ e.mood \in 1..5
  /\ e.dose \in {0, 50, 100, 150}

----------------------------------------------------------------------------
(* Properties of updateEntry *)

\* the id an updateEntry call was given
UpdateId(t) == task'[t].arg[1]

\* C23 as stated: an update of an id that is not in the table ends with an
\* error and leaves the table alone; an update of an id that is in the table
\* changes that row only and returns the id.
C23_AsStated ==
  [][\A t \in Tasks :
       Starts(t, "updateEntry") =>
         IF UpdateId(t) \notin DOMAIN rows
         THEN task'[t].ret = Error /\ rows' = rows
         ELSE ~task'[t].log
                => /\ task'[t].ret = [kind |-> "id", val |-> <<UpdateId(t)>>]
                   /\ SameElsewhere(rows, rows', UpdateId(t))]_vars

\* C23: an update whose table request succeeds never ends with an error; of
\* an id that is not in the table it returns 0 and leaves the table alone;
\* of an id that is in the table it gives that row the date of the update,
\* keeps the row's other fields and every other row, and returns the number
\* of rows it changed: 1, or 0 when the row had that date already.
C23_UpdateCounts ==
  [][\A t \in Tasks :
       (Starts(t, "updateEntry") /\ ~task'[t].log) =>
         LET id == UpdateId(t)
             u == task'[t].arg[2]
         IN /\ task'[t].ret.kind = "id"
            /\ DOMAIN rows' = DOMAIN rows
            /\ SameElsewhere(rows, rows', id)
            /\ id \notin DOMAIN rows => task'[t].ret.val = <<0>>
            /\ id \in DOMAIN rows
                 => /\ rows'[id].date = u.date
                    /\ \A f \in DOMAIN rows[id] \ {"date"} : rows'[id][f] = rows[id][f]
                    /\ task'[t].ret.val = <<IF rows[id].date # u.date THEN 1 ELSE 0>>]_vars

\* an update of the second row has returned 1
C23_Witness ==
  /\ Returned(1, "updateEntry")
  /\ task[1].arg[1] = 2
  /\ 2 \in DOMAIN rows
  /\ task[1].ret.val = <<1>>

----------------------------------------------------------------------------
(* The publishing side on its own: one caller publishes lists, alone or as   *)
(* a full publish, while the environment is redeployed and time passes       *)

NextPublish ==
  \/ \E l \in PubLists : Pub_Config(1, EntriesUrl, calculateMoodStats(l))
  \/ \E op \in {"syncMoodData", "updateMoodEntries"}, l \in PubLists :
       Pub_Upload(1, op, l)
  \/ Pub_UploadEnds(1)
  \/ Pub_PatchEnds(1)
  \/ \E e \in Envs : Deploy(e)
  \/ Tick

SpecPublish == InitEmpty /\ [][NextPublish]_vars

\* updateEdgeConfig is entered in this step: called on its own, or by
\* syncMoodData once its upload has succeeded
EntersConfig(p) ==
  \/ PubFree(p) /\ pub'[p] # pub[p] /\ pub'[p].op = "updateEdgeConfig"
  \/ /\ pub[p].pc = "upload" /\ pub[p].op = "syncMoodData"
     /\ pub'[p].pc # "upload" /\ pub'[p].url # NoUrl

\* C24: when updateEdgeConfig is entered while the store identifier or the
\* access token is missing, the call ends at once with the configuration
\* error, has issued no PATCH request (none in this step, none to repeat),
\* and the four metadata keys are as they were
C24_ConfigError ==
  [][\A p \in Publishers :
       (EntersConfig(p) /\ (~env.EDGE_CONFIG_ID \/ ~env.VERCEL_API_TOKEN))
         => /\ pub'[p].pc = "done"
            /\ pub'[p].ret = ErrorOf(ConfigMessage)
            /\ pub'[p].upserts = 0
            /\ ~netCall'
            /\ meta' = meta]_vars

\* the configuration error was thrown while the four keys had values
C24_Witness ==
  /\ pub[1].op = "updateEdgeConfig"
  /\ pub[1].ret = ErrorOf(ConfigMessage)
  /\ ~env.VERCEL_API_TOKEN
  /\ meta.set

\* the upload of publisher p succeeds in this step
UploadSucceeds(p) ==
  pub[p].pc = "upload" /\ pub'[p].pc # "upload" /\ pub'[p].url # NoUrl

\* C25: the Blob store never holds more than one object; a successful upload
\* leaves exactly the object at the fixed pathname, holding the list just
\* published, and no other step changes the Blob store
C25_OneObject ==
  /\ [](Cardinality(DOMAIN blobs) <= 1)
  /\ [][/\ \A p \in Publishers :
            UploadSucceeds(p)
              => blobs' = [q \in {EntriesUrl} |-> JSON_stringify(pub[p].entries)]
        /\ (~\E p \in Publishers : UploadSucceeds(p)) => blobs' = blobs]_vars

\* a second list was published over the first: the metadata still describe
\* the two-entry list of an earlier full publish
C25_Witness ==
  /\ pub[1].pc = "done" /\ pub[1].op = "updateMoodEntries"
  /\ pub[1].ret = UrlOf(EntriesUrl)
  /\ pub[1].entries = <<PubA>>
  /\ meta.set /\ meta.mood_stats.totalEntries = 2
  /\ DOMAIN blobs = {EntriesUrl}
  /\ blobs[EntriesUrl] = JSON_stringify(<<PubA>>)

\* C26: a full publish has requested the upload once, and the PATCH at most
\* once and only with the url of a successful upload; when its upload fails
\* the call ends with the error, logged, without any PATCH request, and the
\* metadata keys and the Blob store are as they were
C26_FullPublish ==
  /\ [](\A p \in Publishers :
          pub[p].op = "syncMoodData"
            => /\ pub[p].uploads = 1
               /\ pub[p].upserts <= 1
               /\ pub[p].upserts = 1 => pub[p].url # NoUrl)
  /\ [][\A p \in Publishers :
          (/\ pub[p].pc = "upload" /\ pub[p].op = "syncMoodData"
           /\ pub'[p].pc # "upload" /\ pub'[p].url = NoUrl)
            => /\ pub'[p].pc = "done"
               /\ pub'[p].ret = ErrorOf(BlobMessage)
               /\ pub'[p].log
               /\ pub'[p].upserts = 0
               /\ ~netCall'
               /\ meta' = meta
               /\ blobs' = blobs]_vars

\* a full publish failed at its upload after an earlier one had gone through
C26_Witness ==
  /\ pub[1].pc = "done" /\ pub[1].op = "syncMoodData"
  /\ pub[1].ret = ErrorOf(BlobMessage)
  /\ pub[1].entries = <<PubA, PubB>>
  /\ meta.set /\ meta.mood_stats.totalEntries = 1

\* the full publish of p ends in this step with an error after its upload
\* had succeeded
FailsAfterUpload(p) ==
  /\ pub[p].op = "syncMoodData"
  /\ pub[p].pc \in {"upload", "patch"}
  /\ pub'[p].pc = "done"
  /\ pub'[p].url # NoUrl
  /\ pub'[p].ret.kind = "error"

\* C36: when a full publish fails after its upload has succeeded, because
\* the credentials are missing or the PATCH is rejected, syncMoodData ends
\* with that error, the Blob store holds the list just uploaded, and the four
\* metadata keys are as they were before the call
C36_NotAtomic ==
  [][\A p \in Publishers :
       FailsAfterUpload(p)
         => /\ pub'[p].ret \in {ErrorOf(ConfigMessage), ErrorOf(PatchMessage)}
            /\ pub'[p].log
            /\ meta' = meta
            /\ DOMAIN blobs' = {EntriesUrl}
            /\ blobs'[EntriesUrl] = JSON_stringify(pub[p].entries)]_vars

\* the PATCH of a full publish of one entry was rejected: the blob holds the
\* one entry while the keys still describe the two entries published before
C36_Witness ==
  /\ pub[1].pc = "done" /\ pub[1].op = "syncMoodData"
  /\ pub[1].ret = ErrorOf(PatchMessage)
  /\ pub[1].entries = <<PubA>>
  /\ blobs[EntriesUrl] = JSON_stringify(<<PubA>>)
  /\ meta.set /\ meta.mood_stats.totalEntries = 2
  /\ meta.mood_entries_url = EntriesUrl

----------------------------------------------------------------------------
(* The statistics of the remote store: getMoodStats is called while the      *)
(* operator publishes lists and time passes; its request succeeds or fails   *)

NextStats ==
  \/ EC_Call(1, "EC.getMoodStats")
  \/ EC_Fetch(1)
  \/ \E l \in RemoteLists \cup RawLists : RemoteUpdate(l)
  \/ Tick

SpecStats == Init /\ [][NextStats]_vars

\* C27: a call of getMoodStats whose read of the remote list failed (the
\* failure was logged) returns the all-zero statistics tagged
\* edge-config-error
C27_AsStated ==
  \A t \in Tasks :
    (Returned(t, "EC.getMoodStats") /\ task[t].log)
      => task[t].ret.val[1] = ZeroStats("edge-config-error")

\* C28 as stated: when forceSync has returned without a failure, the remote
\* list contains every entry Local Store holds.
C28_AsStated ==
  \A t \in Tasks :
    (Returned(t, "forceSync") /\ ~task[t].log /\ task[t].ret = Void)
      => Fields(toArray(rows)) \subseteq Fields(remote)

\* C28: no step of a forceSync call changes the remote list
C28_ForceSyncReadsOnly ==
  [][\A t \in Tasks :
       (Acts(t) /\ task'[t].op = "forceSync") => remote' = remote]_vars

\* forceSync has returned without a failure while Local Store holds an entry
\* the remote list lacks
C28_Witness ==
  /\ Returned(1, "forceSync") /\ ~task[1].log /\ task[1].ret = Void
  /\ ~(Fields(toArray(rows)) \subseteq Fields(remote))

----------------------------------------------------------------------------
(* forceSync racing the background sync: the table was cleared after a       *)
(* getAll had scheduled the background sync; caller 1 forces syncs, caller 2 *)
(* is the timer's callback, and the operator swaps one-entry lists           *)

RaceLists == {<<RemoteA>>, <<RemoteB>>}

InitRace ==
  /\ rows = EmptyTable
  /\ nextId = 2
  /\ tx = NoTx
  /\ remote \in RaceLists
  /\ lastSyncTime = StartTime
  /\ cachedEdgeConfigData = NullCache
  /\ cacheTimestamp = 0
  /\ now = StartTime
  /\ timers = 1
  /\ task = [t \in Tasks |-> IdleTask]
  /\ netCall = FALSE
  /\ backup = NoBackup
  /\ retry = NoRetry
  /\ blobs = NoBlobs
  /\ meta = NoMeta
  /\ env = [EDGE_CONFIG_ID |-> TRUE, VERCEL_API_TOKEN |-> TRUE]
  /\ pub = [p \in Publishers |-> NoPub]
  /\ hook = NoHook

\* a step of the sync body of caller t
SyncStep(t) ==
  \/ Sync_Local(t)
  \/ Sync_Fetch(t)
  \/ ImpClear(t)
  \/ ImpAdd(t)
  \/ ImpEnd(t)

NextRace ==
  \/ ForceSync(1)
  \/ TimerFire(2)
  \/ SyncStep(1)
  \/ SyncStep(2)
  \/ Tick
  \/ \E l \in RaceLists : RemoteUpdate(l)

\* every awaited request settles, and a read or a transaction queued behind
\* the import of the other caller is served when that import has ended, even
\* if the other caller imports again and again
SpecRace ==
  /\ InitRace
  /\ [][NextRace]_vars
  /\ \A t \in Tasks : SF_vars(SyncStep(t))

\* C29: a sync body in flight always ends, whatever the other does; the
\* import that commits leaves in the table exactly the list it was passed,
\* an import that fails leaves the table as it was, and no other step changes
\* the table: its content is the list of the import that completed last
C29_RaceEnds ==
  /\ \A t \in Tasks : (~Free(t)) ~> Free(t)
  /\ [][/\ \A t \in Tasks :
            (Acts(t) /\ task[t].pc = "imp_end")
              => IF task[t].loc.have
                 THEN HoldsExactly(rows', task[t].loc.list)
                 ELSE rows' = rows
        /\ (~\E t \in Tasks : Acts(t) /\ task[t].pc = "imp_end") => rows' = rows]_vars

\* both syncs have imported, the timer's callback last: the table holds its
\* list and not the one the forced sync had imported
C29_Witness ==
  /\ Returned(2, "backgroundSync")
  /\ nextId = 4
  /\ HoldsExactly(rows, <<RemoteB>>)
  /\ cachedEdgeConfigData = Cached(<<RemoteA>>)

\* C30: the step in which getAllEntries finds rows ends the call with the
\* list it read; it issues no request, changes no row, starts or advances no
\* sync body, and at most adds one run to the timers, which only a later
\* step of the timer takes up
C30_FireAndForget ==
  [][\A t \in Tasks :
       (Starts(t, "getAllEntries") /\ rows # EmptyTable /\ ~task'[t].log)
         => /\ task'[t].pc = "done"
            /\ task'[t].ret = ListOf(DB_getAllEntries(rows))
            /\ rows' = rows
            /\ ~netCall'
            /\ \A u \in Tasks \ {t} : task'[u] = Settled(task[u])
            /\ timers' \in {timers, timers + 1}]_vars

\* getAllEntries has returned the local list while the run it scheduled has
\* not started and an earlier run of the sync body is still in flight
C30_Witness ==
  /\ Returned(1, "getAllEntries")
  /\ task[1].loc.src = "local"
  /\ task[1].ret.val # <<>>
  /\ timers > 0
  /\ lastSyncTime = now
  /\ task[2].op = "backgroundSync"
  /\ task[2].pc = "sync_wait"

----------------------------------------------------------------------------
(* The month query of the two stores, over the same collection: entries      *)
(* around the ends of September 2025 and one of September 2024               *)

MonthPool ==
  <<MkEntry(20251001, PayloadA), MkEntry(20250901, PayloadB),
    MkEntry(20250831, PayloadA), MkEntry(20250930, PayloadB),
    MkEntry(20240915, PayloadA)>>

\* the elements of the pool at the positions S, in the pool's order
PoolList(S) == SelectSeq(MonthPool, LAMBDA e : \E k \in S : MonthPool[k] = e)

MonthLists == {PoolList(S) : S \in SUBSET (1..Len(MonthPool))}

MonthArgs == {<<2025, 8>>, <<2025, 9>>, <<2025, 10>>, <<2024, 9>>}

\* the table and the key mood_entries hold the same collection
InitMonth ==
  /\ \E l \in MonthLists :
       /\ rows = bulkAdd(EmptyTable, l, 1)
       /\ nextId = Len(l) + 1
       /\ remote = [k \in 1..Len(l) |-> WithId(k, l[k])]
  /\ tx = NoTx
  /\ lastSyncTime = 0
  /\ cachedEdgeConfigData = NullCache
  /\ cacheTimestamp = 0
  /\ now = StartTime
  /\ timers = 0
  /\ task = [t \in Tasks |-> IdleTask]
  /\ netCall = FALSE
  /\ backup = NoBackup
  /\ retry = NoRetry
  /\ blobs = NoBlobs
  /\ meta = NoMeta
  /\ env = [EDGE_CONFIG_ID |-> TRUE, VERCEL_API_TOKEN |-> TRUE]
  /\ pub = [p \in Publishers |-> NoPub]
  /\ hook = NoHook

\* MoodCalendarDB.getEntriesForMonth(year, month): the read of the index
\* answers, or rejects
DB_Month(t, year, month) ==
  /\ Free(t)
  /\ ~tx.active
  /\ \E ok \in BOOLEAN :
       SetTask(t, Finished("DB.getEntriesForMonth", <<year, month>>, "local",
                           IF ok THEN ListOf(DB_getEntriesForMonth(rows, year, month))
                           ELSE Error, FALSE))
  /\ netCall' = FALSE
  /\ UNCHANGED <<store, remote, service, now, timers, extra>>

\* EdgeConfigStore.getMoodEntriesForMonth(year, month) issues its request
EC_MonthCall(t, year, month) ==
  /\ Free(t)
  /\ SetTask(t, Running("ec_month", "EC.getMoodEntriesForMonth", <<year, month>>,
                         [NoLoc EXCEPT !.src = "fetch"], FALSE))
  /\ netCall' = TRUE
  /\ UNCHANGED <<store, remote, service, now, timers, extra>>

\* the request settles and the list is filtered; a failure is logged by
\* getMoodEntries and leaves the empty list to filter
EC_MonthFetch(t) ==
  /\ task[t].pc = "ec_month"
  /\ \E ok \in BOOLEAN :
       SetTask(t, Finished(task[t].op, task[t].arg, "fetch",
                           ListOf(EC_getMoodEntriesForMonth(
                                    EC_getMoodEntries(ok, remote),
                                    task[t].arg[1], task[t].arg[2])), ~ok))
  /\ netCall' = FALSE
  /\ UNCHANGED <<store, remote, service, now, timers, extra>>

NextMonth ==
  \/ \E a \in MonthArgs : DB_Month(1, a[1], a[2])
  \/ \E a \in MonthArgs : EC_MonthCall(1, a[1], a[2])
  \/ EC_MonthFetch(1)

SpecMonth == InitMonth /\ [][NextMonth]_vars

\* the date lies in the calendar month
InMonth(date, year, month) ==
  date \div 10000 = year /\ (date \div 100) % 100 = month

\* the entries of the collection whose date lies in the month
OfMonth(list, year, month) ==
  {StripId(list[k]) : k \in {j \in 1..Len(list) : InMonth(list[j].date, year, month)}}

\* C31: a month query of either store that succeeded has returned exactly the
\* entries of the collection dated in that month, each once; and for every
\* month the two implementations select the same entries of the collection
C31_MonthQuery ==
  /\ \A t \in Tasks :
       (/\ task[t].pc = "done"
        /\ task[t].op \in {"DB.getEntriesForMonth", "EC.getMoodEntriesForMonth"}
        /\ task[t].ret.kind = "list" /\ ~task[t].log)
         => /\ Fields(task[t].ret.val) = OfMonth(remote, task[t].arg[1], task[t].arg[2])
            /\ Len(task[t].ret.val) = Cardinality(Fields(task[t].ret.val))
  /\ \A a \in MonthArgs :
       Fields(DB_getEntriesForMonth(rows, a[1], a[2]))
         = Fields(EC_getMoodEntriesForMonth(remote, a[1], a[2]))

\* the local query for August 2025 has returned the entry of 2025-08-31 out
\* of the whole pool
C31_Witness ==
  /\ Returned(1, "DB.getEntriesForMonth")
  /\ task[1].arg = <<2025, 8>>
  /\ Len(task[1].ret.val) = 1
  /\ task[1].ret.val[1].date = 20250831
  /\ Len(remote) = 5

----------------------------------------------------------------------------
(* The statistics of the table: getStats is called over tables of up to four *)
(* rows, between deletions                                                   *)

StatsPool ==
  <<MkEntry(20250901, PayloadA), MkEntry(20250902, PayloadB),
    MkEntry(20250903, [dose |-> 50, clonazepamDrops |-> 0, mood |-> 2, comment |-> <<>>]),
    MkEntry(20250904, [dose |-> 150, clonazepamDrops |-> 0, mood |-> 5, comment |-> <<>>])>>

StatsLists ==
  {SelectSeq(StatsPool, LAMBDA e : \E k \in S : StatsPool[k] = e) :
     S \in SUBSET (1..Len(StatsPool))}

InitTotals ==
  /\ \E l \in StatsLists :
       /\ rows = bulkAdd(EmptyTable, l, 1)
       /\ nextId = Len(l) + 1
  /\ tx = NoTx
  /\ remote = <<>>
  /\ lastSyncTime = 0
  /\ cachedEdgeConfigData = NullCache
  /\ cacheTimestamp = 0
  /\ now = StartTime
  /\ timers = 0
  /\ task = [t \in Tasks |-> IdleTask]
  /\ netCall = FALSE
  /\ backup = NoBackup
  /\ retry = NoRetry
  /\ blobs = NoBlobs
  /\ meta = NoMeta
  /\ env = [EDGE_CONFIG_ID |-> TRUE, VERCEL_API_TOKEN |-> TRUE]
  /\ pub = [p \in Publishers |-> NoPub]
  /\ hook = NoHook

\* MoodCalendarDB.getStats(): the read of the table answers, or rejects
DB_Stats(t) ==
  /\ Free(t)
  /\ ~tx.active
  /\ \E ok \in BOOLEAN :
       SetTask(t, Finished("DB.getStats", <<>>, "local",
                           IF ok THEN [kind |-> "stats", val |-> <<DB_getStats(rows)>>]
                           ELSE Error, FALSE))
  /\ netCall' = FALSE
  /\ UNCHANGED <<store, remote, service, now, timers, extra>>

NextTotals ==
  \/ DB_Stats(1)
  \/ \E i \in 1..MaxId : Delete(1, i)
  \/ ClearAll(1)

SpecTotals == InitTotals /\ [][NextTotals]_vars

\* h hundredths is total / n rounded to two decimals
Rounded(h, total, n) ==
  LET d == 100 * total - h * n
  IN  2 * (IF d < 0 THEN 0 - d ELSE d) <= n

\* C32: getStats of the table has returned the number of rows as
\* totalEntries and, of mood, dose and drops, the sum over the rows divided by
\* that number and rounded to two decimals (3.00 for the moods 4, 3, 2); of
\* the empty table it has returned 0 in all four fields
C32_LocalStats ==
  \A t \in Tasks :
    (Returned(t, "DB.getStats") /\ task[t].ret.kind = "stats")
      => LET st == task[t].ret.val[1]
             list == toArray(rows)
             n == Len(list)
         IN  /\ st.totalEntries = Cardinality(DOMAIN rows)
             /\ n = 0 => /\ st.averageMood = 0 /\ st.averageDose = 0
                          /\ st.averageClonazepamDrops = 0
             /\ n > 0 => /\ Rounded(st.averageMood, SumSeq(MapMood(list)), n)
                          /\ Rounded(st.averageDose, SumSeq(MapDose(list)), n)
                          /\ Rounded(st.averageClonazepamDrops,
                                     SumSeq(MapDrops(list)), n)
             /\ MapMood(list) = <<4, 3, 2>> => st.averageMood = 300

\* the statistics of the rows with the moods 4, 3, 2 and the doses 100, 50,
\* 50 were returned
C32_Witness ==
  /\ Returned(1, "DB.getStats")
  /\ task[1].ret.kind = "stats"
  /\ MapMood(toArray(rows)) = <<4, 3, 2>>
  /\ task[1].ret.val[1].averageMood = 300
  /\ task[1].ret.val[1].averageDose = 6667

----------------------------------------------------------------------------
(* The migration at the first load: the effect of the page may run twice, so *)
(* two calls of migrateMockData can be in flight over the empty table        *)

NextMigrate ==
  \/ \E t \in Tasks : Mig_Call(t)
  \/ \E t \in Tasks : Mig_Read(t)
  \/ \E t \in Tasks : Mig_Lookup(t)
  \/ \E t \in Tasks : Mig_Write(t)

SpecMigrate == InitEmpty /\ [][NextMigrate]_vars

\* C33 as stated: whatever calls of migrateMockData are or were in flight,
\* the table never holds two rows of one date, and when a call has returned
\* true while no other is in flight it holds exactly the three sample
\* entries, one per date.
C33_AsStated ==
  /\ \A i, j \in DOMAIN rows : rows[i].date = rows[j].date => i = j
  /\ \A t \in Tasks :
       (/\ Returned(t, "migrateMockData") /\ task[t].ret = Bool(TRUE)
        /\ \A u \in Tasks : Free(u))
         => HoldsExactly(rows, mockEntries)

----------------------------------------------------------------------------
(* A save during the sync body: caller 1 forces a sync over the empty table, *)
(* caller 2 saves entries of dates the remote list does not hold             *)

LateSaves == {MkEntry(20250903, PayloadB), MkEntry(20250904, PayloadA)}

NextLost ==
  \/ ForceSync(1)
  \/ SyncStep(1)
  \/ \E e \in LateSaves : Save_Lookup(2, e)
  \/ Save_Write(2)

SpecLost == InitEmpty /\ [][NextLost]_vars

\* C34: the sync body decides to import from the number of rows it read at
\* its start; once decided it clears the table whatever has been saved since,
\* and the committed import leaves exactly the remote list in the table, so
\* an entry saved in between is gone.
C34_StaleDecision ==
  [][\A t \in Tasks : task[t].op \in SyncOps =>
       /\ (task[t].pc = "sync_wait" /\ task'[t].pc = "imp_clear")
            => Len(task'[t].loc.list) >
                 (IF task[t].loc.aux # Pending THEN task[t].loc.aux
                  ELSE Len(DB_getAllEntries(rows)))
       /\ (task[t].pc = "imp_clear" /\ task'[t] # task[t])
            => (task'[t].pc = "imp_add" /\ tx'.active /\ tx'.work = EmptyTable)
       /\ (task[t].pc = "imp_end" /\ task[t].loc.have /\ task'[t].pc = "done")
            => (/\ HoldsExactly(rows', task[t].loc.list)
                /\ \A e \in LateSaves : e \notin Fields(DB_getAllEntries(rows')))]_vars

\* the forced sync has imported the two remote entries although two saves had
\* added their rows (keys 1 and 2) after it had read the empty table
C34_Witness ==
  /\ Returned(1, "forceSync")
  /\ HoldsExactly(rows, remote)
  /\ Len(remote) = 2
  /\ nextId = 5

----------------------------------------------------------------------------
(* The marker after a forced sync: caller 1 forces syncs and asks for the   *)
(* report of the data sources, caller 2 reads the list and runs the timer's *)
(* sync body                                                                *)

NextInfo ==
  \/ ForceSync(1)
  \/ SyncStep(1)
  \/ Info_Call(1)
  \/ Info_Both(1)
  \/ Info_Fetch(1)
  \/ GetAll_LocalFail(2)
  \/ GetAll_LocalHit(2)
  \/ GetAll_LocalMiss(2)
  \/ GetAll_Fetch(2)
  \/ TimerFire(2)
  \/ SyncStep(2)
  \/ Tick

SpecInfo == InitPublished /\ [][NextInfo]_vars

\* the report getDataSourceInfo would give of the marker as it stands
ReportsNull == DataSourceInfo(0, FALSE, 0, lastSyncTime).val[1].lastSyncTime = <<>>

\* C35 as stated: whenever forceSync has returned the marker is 0, so that
\* getDataSourceInfo reports lastSyncTime as null.
C35_AsStated ==
  \A t \in Tasks : Returned(t, "forceSync") => (lastSyncTime = 0 /\ ReportsNull)

\* C35: forceSync sets the marker to 0 when it starts and never writes it
\* again; the marker leaves 0 only by a getAllEntries call that finds rows;
\* while the marker is 0 every such call schedules a run of the sync body,
\* whatever the clock says, and every report of getDataSourceInfo carries
\* null for lastSyncTime.
C35_MarkerReset ==
  [][/\ \A t \in Tasks :
          /\ Starts(t, "forceSync") => lastSyncTime' = 0
          /\ (~Free(t) /\ Acts(t) /\ task[t].op = "forceSync")
               => lastSyncTime' = lastSyncTime
          /\ (Starts(t, "getAllEntries") /\ task'[t].loc.src = "local"
                /\ task'[t].pc = "done" /\ lastSyncTime = 0)
               => (timers' = timers + 1 /\ lastSyncTime' = now)
          /\ (Acts(t) /\ task'[t].op = "getDataSourceInfo" /\ task'[t].pc = "done"
                /\ lastSyncTime = 0)
               => task'[t].ret.val[1].lastSyncTime = <<>>
     /\ (lastSyncTime = 0 /\ lastSyncTime' # 0)
          => \E u \in Tasks : /\ Starts(u, "getAllEntries")
                              /\ task'[u].loc.src = "local"]_vars

\* getDataSourceInfo reports null for lastSyncTime over a table with rows
\* although the sync body has just filled the cache
C35_Witness ==
  /\ Returned(1, "getDataSourceInfo")
  /\ task[1].ret.val[1].lastSyncTime = <<>>
  /\ task[1].ret.val[1].hasLocalData
  /\ cachedEdgeConfigData.has
  /\ cacheTimestamp = now
  /\ now > StartTime

----------------------------------------------------------------------------
(* The hook useHybridConfig: two mutations may be in flight at once, each a  *)
(* full publish of the list its callback built                               *)

NextHook ==
  \/ \E p \in Publishers : Hook_Mutate(p, randomUUID(p))
  \/ \E p \in Publishers : Pub_UploadEnds(p)
  \/ \E p \in Publishers : Pub_PatchEnds(p)
  \/ \E p \in Publishers : Hook_Synced(p)
  \/ \E p \in Publishers : Hook_Refreshed(p)
  \/ Hook_Render

SpecHook == InitEmpty /\ [][NextHook]_vars

\* the list the Blob store holds under the fixed pathname
Published == IF EntriesUrl \in DOMAIN blobs THEN blobs[EntriesUrl].array ELSE <<>>

\* C37 as stated: when a publish of the hook completes while no other one is
\* in flight, the Blob store holds the list of that publish.
C37_AsStated ==
  [][\A p \in Publishers :
       (/\ pub[p].pc = "patch" /\ pub'[p].pc = "done" /\ pub'[p].ret = Void
        /\ \A q \in Publishers \ {p} : PubFree(q))
         => Published' = pub[p].entries]_vars

\* C37: a mutation publishes the list built from the entries of the last
\* render, whatever the state entries hold by then; a successful upload puts
\* that list in the place of whatever the Blob store held, and a successful
\* PATCH writes the statistics of the list of its own call: of two mutations
\* built on the same entries the Blob store keeps the list of the upload that
\* settled last and the keys those of the PATCH that settled last.
C37_LostUpdate ==
  [][\A p \in Publishers :
       /\ (hook.run[p] = "none" /\ hook'.run[p] = "sync")
            => (/\ pub'[p].entries \in Mutations(hook.rendered, p)
                /\ hook'.base[p] = hook.rendered)
       /\ (hook.run[p] = "sync" /\ UploadSucceeds(p))
            => Published' = pub[p].entries
       /\ (hook.run[p] = "sync" /\ pub[p].pc = "patch" /\ pub'[p].ret = Void
             /\ pub'[p].pc = "done")
            => meta'.mood_stats = calculateMoodStats(pub[p].entries)]_vars

\* both callers added an entry on the empty list of the first render: the
\* publish of caller 2 completed first and the hook shows its entry; the
\* publish of caller 1 has just completed, the last of the two, and the Blob
\* store holds the entry of caller 2 alone under the statistics of caller 1
C37_Witness ==
  /\ hook.calls = 2
  /\ pub[1].pc = "done" /\ pub[1].ret = Void /\ hook.run[1] = "sync"
  /\ hook.base[1] = <<>>
  /\ Len(pub[1].entries) = 1 /\ pub[1].entries[1].id = "n1"
  /\ PubFree(2) /\ hook.run[2] = "none"
  /\ Len(Published) = 1 /\ Published[1].id = "n2"
  /\ hook.entries = Published
  /\ meta.mood_stats = calculateMoodStats(pub[1].entries)

----------------------------------------------------------------------------
(* The route POST /api/sync: requests arrive one after the other while the   *)
(* environment is redeployed                                                 *)

NextRoute ==
  \/ \E b \in RouteBodies : Route_Post(1, b)
  \/ Pub_UploadEnds(1)
  \/ Pub_PatchEnds(1)
  \/ Route_Respond(1)
  \/ \E e \in Envs : Deploy(e)

SpecRoute == InitEmpty /\ [][NextRoute]_vars

\* C38 as stated: a request either reaches the publish step, with a list all
\* of whose elements carry an id, a date and a mood in 1..5, or is answered
\* at once with status 400 while the Blob store and the metadata keys stay as
\* they were.
C38_AsStated ==
  [][\A p \in Publishers :
       (PubFree(p) /\ pub'[p] # pub[p] /\ pub'[p].op # "updateEdgeConfig")
         => \/ /\ pub'[p].pc = "upload"
               /\ \A k \in 1..Len(pub'[p].entries) : route_valid(pub'[p].entries[k])
            \/ /\ pub'[p].pc = "done"
               /\ pub'[p].ret = Status(400)
               /\ blobs' = blobs /\ meta' = meta]_vars

====
